---- MODULE Spec2Model ----
(***************************************************************************)
(* Writing-progress and anomaly-detection engine of plAIgiarized:          *)
(* DetectionService, ProgressService, StudentProgressService,              *)
(* ClassProgressService and BaselineService.                               *)
(*                                                                         *)
(* Python floats are modelled as exact rationals [n, d] in lowest terms    *)
(* with d > 0.  Dict keys that the code builds or rewrites with string     *)
(* operations are modelled as sequences of name segments, so that          *)
(* f"{metric}_change" and key.replace("_change", "") are computed, not     *)
(* assumed.                                                                *)
(***************************************************************************)
EXTENDS Integers, Sequences, FiniteSets, TLC

(***************************************************************************)
(* Bounds of the model                                                     *)
(***************************************************************************)
\* largest number of entries of an improvements map passed to the classifier
MaxImprovements == 2
\* longest essay list handed to ProgressService
MaxEssays == 2
\* longest list of previous essays handed to _detect_anomalies
MaxPrevious == 2
\* most essays stored as baseline essays in one behaviour
MaxStored == 2
\* longest history of stored essays handed to the trend analysis
MaxHistory == 3
\* most sentences of an essay text
MaxSentences == 2
\* most students of a class
MaxStudents == 5
\* longest samples list handed to update_student_baseline
MaxSamples == 11
\* longest list of essay ids handed to set_student_baseline
MaxIds == 2
\* most times the clock is advanced in one behaviour
MaxSleeps == 2
\* most threads the scheduler starts in one behaviour
MaxThreads == 2
\* most monitor threads HealthService starts in one behaviour
MaxMonitors == 2
\* most entries appended to health_history in one behaviour
MaxHealthEntries == 2
\* most changes queued in one behaviour
MaxChanges == 3

(***************************************************************************)
(* Float arithmetic                                                        *)
(***************************************************************************)
Abs(x) == IF x < 0 THEN -x ELSE x

RECURSIVE GCD(_, _)
GCD(a, b) == IF b = 0 THEN a ELSE GCD(b, a % b)

\* the float n / d, d # 0
Rat(n, d) ==
    LET g == GCD(Abs(n), Abs(d))
        s == IF d < 0 THEN -1 ELSE 1
    IN  [n |-> (s * n) \div g, d |-> (s * d) \div g]

\* a float literal with one decimal digit, given in tenths
Dec(t) == Rat(t, 10)

RInt(i) == [n |-> i, d |-> 1]
\* common factors are divided out before multiplying, to keep the integers
\* small
RAdd(a, b) ==
    LET g == GCD(a.d, b.d)
    IN  Rat(a.n * (b.d \div g) + b.n * (a.d \div g), (a.d \div g) * b.d)
RSub(a, b) == RAdd(a, [n |-> -b.n, d |-> b.d])
RMul(a, b) ==
    LET g1 == GCD(Abs(a.n), b.d)
        g2 == GCD(Abs(b.n), a.d)
    IN  Rat((a.n \div g1) * (b.n \div g2), (a.d \div g2) * (b.d \div g1))
\* a / b for b # 0; the callers model ZeroDivisionError before dividing
RDiv(a, b) == RMul(a, Rat(b.d, b.n))
RLt(a, b) ==
    LET g == GCD(a.d, b.d)
    IN  a.n * (b.d \div g) < b.n * (a.d \div g)
RGt(a, b) == RLt(b, a)
RIsZero(a) == a.n = 0
RMin(a, b) == IF RLt(b, a) THEN b ELSE a
RMax(a, b) == IF RGt(b, a) THEN b ELSE a

(***************************************************************************)
(* Exceptions and results                                                  *)
(***************************************************************************)
NoValue == [n |-> 0, d |-> 0]
Ok(v) == [exc |-> "none", val |-> v]
Raise(e) == [exc |-> e, val |-> NoValue]

(***************************************************************************)
(* DetectionService                                                        *)
(***************************************************************************)
\* the metric names _extract_style_metrics produces
StyleMetrics == {"percentile", "grade_level", "vocab", "complexity", "style"}

\* the keys of each band of improvement_thresholds
ThresholdKeys ==
    { <<"percentile", "_change">>, <<"grade_level", "_change">>,
      <<"vocab", "_growth">>, <<"complexity", "_growth">>,
      <<"style", "_improvement">> }

\* improvement_thresholds[band][key]
improvement_thresholds ==
    [band \in {"average", "high", "suspicious"} |->
        [k \in ThresholdKeys |->
            IF k = <<"grade_level", "_change">>
            THEN CASE band = "average" -> Dec(10)
                   [] band = "high" -> Dec(15)
                   [] band = "suspicious" -> Dec(20)
            ELSE CASE band = "average" -> Dec(100)
                   [] band = "high" -> Dec(250)
                   [] band = "suspicious" -> Dec(300)]]

\* f"{metric}_change"
ChangeKey(metric) == <<metric, "_change">>

\* key.replace("_change", "")
IsNotChangeSegment(seg) == seg # "_change"
StripChange(key) == SelectSeq(key, IsNotChangeSegment)

\* the values _extract_style_metrics returns when a helper call raises
DefaultStyleMetrics ==
    [m \in StyleMetrics |->
        CASE m = "percentile" -> Dec(500)
          [] m = "grade_level" -> Dec(80)
          [] m = "vocab" -> RInt(100)
          [] m = "complexity" -> Dec(150)
          [] m = "style" -> Dec(50)]

\* _extract_style_metrics(content).  The helper methods it calls
\* (_calculate_percentile, _calculate_grade_level, _calculate_style_score)
\* are not defined in the class, and the sentence list may be empty: a
\* content is modelled by the outcome of the try block, either an exception
\* (caught, the defaults are returned) or the dict of computed values.
_extract_style_metrics(content) ==
    IF content.raises THEN DefaultStyleMetrics ELSE content.style

\* _calculate_improvements(baseline, submitted, time_span)
_calculate_improvements(baseline, submitted, time_span) ==
    LET computed == {m \in DOMAIN baseline : RGt(baseline[m], RInt(0))}
        change(m) == RMul(RDiv(RSub(submitted[m], baseline[m]), baseline[m]),
                          RInt(100))
        yearly_change(m) == IF RGt(time_span, RInt(0))
                            THEN RDiv(change(m), time_span)
                            ELSE change(m)
    IN  IF \E m \in computed : m \notin DOMAIN submitted
        THEN Raise("KeyError")
        ELSE Ok([k \in {ChangeKey(m) : m \in computed} |-> yearly_change(k[1])])

\* the amount one entry adds to suspicious_count (lines 85-89); the key is
\* already stripped and present in the threshold tables
SuspiciousIncrement(name, value) ==
    IF RGt(value, improvement_thresholds["suspicious"][name]) THEN RInt(1)
    ELSE IF RGt(value, improvement_thresholds["high"][name]) THEN Dec(5)
    ELSE RInt(0)

\* suspicious_count after the loop over improvements.items()
RECURSIVE SuspiciousCount(_, _)
SuspiciousCount(improvements, keys) ==
    IF keys = {} THEN RInt(0)
    ELSE LET k == CHOOSE x \in keys : TRUE
         IN  RAdd(SuspiciousIncrement(StripChange(k), improvements[k]),
                  SuspiciousCount(improvements, keys \ {k}))

\* _evaluate_improvement_realism(improvements, time_span)
_evaluate_improvement_realism(improvements, time_span) ==
    LET keys == DOMAIN improvements
        total_metrics == Cardinality(keys)
    IN  IF \E k \in keys : StripChange(k) \notin ThresholdKeys
        THEN Raise("KeyError")
        ELSE IF total_metrics = 0
        THEN Raise("ZeroDivisionError")
        ELSE LET ai_probability ==
                     RDiv(SuspiciousCount(improvements, keys), RInt(total_metrics))
             IN  Ok(RMin(RMax(ai_probability, RInt(0)), RInt(1)))

\* the fallback with its scores written as percentages
CompareFallbackPercent ==
    [similarity_score |-> Rat(75, 1), ai_probability |-> Rat(25, 1)]

\* the dict compare_essays returns from its except branch
CompareFallback ==
    [similarity_score |-> Rat(75, 100), ai_probability |-> Rat(25, 100)]

\* compare_essays with an except branch that keeps a similarity it has
\* already computed
compare_essays_keeping_similarity(baseline, submitted, similarity) ==
    IF similarity.exc = "none"
    THEN [similarity_score |-> similarity.val, ai_probability |-> Rat(25, 100)]
    ELSE CompareFallback

\* compare_essays(baseline, submitted); similarity is the outcome of the call
\* self._calculate_similarity(...), a method the class does not define
compare_essays(baseline, submitted, similarity) ==
    LET time_diff == Rat(submitted.created_at - baseline.created_at, 365)
        baseline_metrics == _extract_style_metrics(baseline.content)
        submitted_metrics == _extract_style_metrics(submitted.content)
        improvements ==
            _calculate_improvements(baseline_metrics, submitted_metrics, time_diff)
        ai_probability ==
            IF improvements.exc # "none" THEN improvements
            ELSE _evaluate_improvement_realism(improvements.val, time_diff)
    IN  IF ai_probability.exc = "none" /\ similarity.exc = "none"
        THEN [similarity_score |-> similarity.val,
              ai_probability |-> ai_probability.val,
              improvements |-> improvements.val]
        ELSE CompareFallback

(***************************************************************************)
(* ProgressService                                                         *)
(***************************************************************************)
\* improvement_ranges["typical"]["min"] and ["accelerated"]["max"]
TypicalMin == Dec(50)
AcceleratedMax == Dec(250)

EmptyDict == <<>>

\* sorted(essays, key=lambda x: x.created_at): a stable insertion
RECURSIVE SortedByCreatedAt(_)
SortedByCreatedAt(essays) ==
    IF essays = <<>> THEN <<>>
    ELSE LET n == Len(essays)
             front == SortedByCreatedAt(SubSeq(essays, 1, n - 1))
             e == essays[n]
             before == SelectSeq(front, LAMBDA x : x.created_at <= e.created_at)
             after == SelectSeq(front, LAMBDA x : x.created_at > e.created_at)
         IN  before \o <<e>> \o after

\* (later.created_at - earlier.created_at).days / 365.0
YearsBetween(earlier, later) == Rat(later.created_at - earlier.created_at, 365)

\* (curr[m] - prev[m]) / prev[m] * 100, for prev[m] # 0
PercentChange(prev, curr, m) ==
    RMul(RDiv(RSub(curr.metrics[m], prev.metrics[m]), prev.metrics[m]), RInt(100))

\* _calculate_overall_improvement(essays)
_calculate_overall_improvement(essays) ==
    IF Len(essays) < 2 THEN Ok(EmptyDict)
    ELSE LET first == essays[1]
             last == essays[Len(essays)]
             time_span == YearsBetween(first, last)
         IN  IF \/ RIsZero(time_span)
                \/ RIsZero(first.metrics["vocabulary_size"])
                \/ RIsZero(first.metrics["sentence_complexity"])
                \/ RIsZero(first.metrics["style_fingerprint"])
             THEN Raise("ZeroDivisionError")
             ELSE Ok([writing_level |->
                         RDiv(RSub(last.metrics["grade_level"],
                                   first.metrics["grade_level"]), time_span),
                      vocabulary |->
                         RDiv(PercentChange(first, last, "vocabulary_size"), time_span),
                      complexity |->
                         RDiv(PercentChange(first, last, "sentence_complexity"), time_span),
                      style |->
                         RDiv(PercentChange(first, last, "style_fingerprint"), time_span)])

\* a consecutive pair on which _analyze_skill_improvements divides by zero
SkillPairRaises(prev, curr) ==
    \/ RIsZero(prev.metrics["vocabulary_size"])
    \/ RIsZero(prev.metrics["sentence_complexity"])
    \/ RIsZero(YearsBetween(prev, curr))

\* _analyze_skill_improvements(essays)
_analyze_skill_improvements(essays) ==
    LET pairs == 1 .. (Len(essays) - 1)
    IN  IF \E i \in pairs : SkillPairRaises(essays[i], essays[i + 1])
        THEN Raise("ZeroDivisionError")
        ELSE Ok([vocabulary |->
                    [i \in pairs |->
                        RDiv(PercentChange(essays[i], essays[i + 1], "vocabulary_size"),
                             YearsBetween(essays[i], essays[i + 1]))],
                 grammar |->
                    [i \in pairs |->
                        RDiv(PercentChange(essays[i], essays[i + 1], "sentence_complexity"),
                             YearsBetween(essays[i], essays[i + 1]))],
                 structure |-> <<>>,
                 style |-> <<>>])

\* sum of a list of floats
RECURSIVE RSum(_)
RSum(values) ==
    IF values = <<>> THEN RInt(0)
    ELSE RAdd(values[1], RSum(Tail(values)))

\* statistics.mean of a non-empty list
Mean(values) == RDiv(RSum(values), RInt(Len(values)))

\* _calculate_improvement_rate(essays)
_calculate_improvement_rate(essays) ==
    IF Len(essays) < 2 THEN Ok(RInt(0))
    ELSE LET pairs == 1 .. (Len(essays) - 1)
             improvement(prev, curr) ==
                 RDiv(RDiv(RAdd(RAdd(RSub(curr.metrics["grade_level"],
                                          prev.metrics["grade_level"]),
                                     PercentChange(prev, curr, "vocabulary_size")),
                                PercentChange(prev, curr, "sentence_complexity")),
                           RInt(3)),
                      YearsBetween(prev, curr))
         IN  IF \E i \in pairs : SkillPairRaises(essays[i], essays[i + 1])
             THEN Raise("ZeroDivisionError")
             ELSE Ok(Mean([i \in pairs |-> improvement(essays[i], essays[i + 1])]))

\* _track_percentile_changes(essays)
_track_percentile_changes(essays) ==
    [i \in 1 .. Len(essays) |->
        <<essays[i].created_at,
          IF "percentile" \in DOMAIN essays[i].metrics
          THEN essays[i].metrics["percentile"] ELSE Dec(500)>>]

\* f"{value:.1f}": the number of tenths nearest to value, ties to even
FormatTenths(value) ==
    LET scaled == 10 * value.n
        q == scaled \div value.d
        r == scaled % value.d
    IN  IF 2 * r < value.d THEN q
        ELSE IF 2 * r > value.d THEN q + 1
        ELSE IF q % 2 = 0 THEN q ELSE q + 1

\* the flag the loop of _check_improvement_flags appends for one entry
ImprovementFlag(metric, value) ==
    IF RGt(value, AcceleratedMax)
    THEN <<[text |-> "Unusual", metric |-> metric, tenths |-> FormatTenths(value)]>>
    ELSE IF RLt(value, TypicalMin)
    THEN <<[text |-> "Below expected", metric |-> metric,
            tenths |-> FormatTenths(value)]>>
    ELSE <<>>

\* _check_improvement_flags(essays)
_check_improvement_flags(essays) ==
    IF Len(essays) < 2 THEN Ok(<<>>)
    ELSE LET improvements == _calculate_overall_improvement(essays)
         IN  IF improvements.exc # "none" THEN improvements
             ELSE Ok(ImprovementFlag("writing_level", improvements.val.writing_level)
                     \o ImprovementFlag("vocabulary", improvements.val.vocabulary)
                     \o ImprovementFlag("complexity", improvements.val.complexity)
                     \o ImprovementFlag("style", improvements.val.style))

\* the progress dict track_student_progress builds, or the exception raised
\* while building it
ProgressOf(essays) ==
    LET sorted_essays == SortedByCreatedAt(essays)
        overall == _calculate_overall_improvement(sorted_essays)
        skills == _analyze_skill_improvements(sorted_essays)
        rate == _calculate_improvement_rate(sorted_essays)
        flags == _check_improvement_flags(sorted_essays)
    IN  IF overall.exc # "none" THEN overall
        ELSE IF skills.exc # "none" THEN skills
        ELSE IF rate.exc # "none" THEN rate
        ELSE IF flags.exc # "none" THEN flags
        ELSE Ok([overall_improvement |-> overall.val,
                 skill_breakdown |-> skills.val,
                 improvement_rate |-> rate.val,
                 percentile_changes |-> _track_percentile_changes(sorted_essays),
                 flags |-> flags.val])

\* the value track_student_progress returns
track_student_progress(student_id, essays) ==
    IF ProgressOf(essays).exc = "none" THEN ProgressOf(essays).val ELSE EmptyDict

(***************************************************************************)
(* StudentProgressService and ClassProgressService                         *)
(***************************************************************************)
\* settings["metrics"] of both services
SettingsMetrics ==
    <<"grade_level", "vocabulary_diversity", "syntax_complexity",
      "writing_style", "coherence">>

\* settings of StudentProgressService
significant_improvement_threshold == Dec(5)
anomaly_threshold == Dec(20)
grade_level_jump_threshold == Dec(20)

\* the settings metrics present in both dicts
MetricsInBoth(baseline, current) ==
    {SettingsMetrics[i] : i \in DOMAIN SettingsMetrics}
        \cap DOMAIN baseline \cap DOMAIN current

\* StudentProgressService._calculate_progress_metrics(baseline, new_analysis)
_calculate_progress_metrics(baseline, new_analysis) ==
    [metric \in MetricsInBoth(baseline, new_analysis) |->
        LET baseline_value == baseline[metric]
            new_value == new_analysis[metric]
            abs_change == RSub(new_value, baseline_value)
            rel_change == IF ~RIsZero(baseline_value)
                          THEN RDiv(RSub(new_value, baseline_value), baseline_value)
                          ELSE RInt(0)
        IN  [baseline |-> baseline_value,
             current |-> new_value,
             absolute_change |-> abs_change,
             relative_change |-> rel_change,
             significant_improvement |->
                 RGt(rel_change, significant_improvement_threshold)]]

\* ClassProgressService._calculate_improvement(baseline, current)
_calculate_improvement(baseline, current) ==
    [metric \in MetricsInBoth(baseline, current) |->
        LET baseline_value == baseline[metric]
            current_value == current[metric]
        IN  IF ~RIsZero(baseline_value)
            THEN RDiv(RSub(current_value, baseline_value), baseline_value)
            ELSE RInt(0)]

\* the values list _detect_anomalies collects for a metric
RECURSIVE AnalysisValues(_, _)
AnalysisValues(previous_essays, metric) ==
    IF previous_essays = <<>> THEN <<>>
    ELSE LET essay == Head(previous_essays)
             rest == AnalysisValues(Tail(previous_essays), metric)
         IN  IF "analysis" \in DOMAIN essay /\ metric \in DOMAIN essay.analysis
             THEN <<essay.analysis[metric]>> \o rest
             ELSE rest

\* np.std(values) ** 2: the population variance
Variance(values) ==
    LET m == Mean(values)
    IN  Mean([i \in DOMAIN values |-> RMul(RSub(values[i], m), RSub(values[i], m))])

\* the square of z_score = (x - mean) / std, 0 when std = 0
ZScoreSquared(values, x) ==
    IF RIsZero(Variance(values)) THEN RInt(0)
    ELSE RDiv(RMul(RSub(x, Mean(values)), RSub(x, Mean(values))), Variance(values))

\* abs(v) > bound, on the square of v
AbsExceeds(squared, bound) == RGt(squared, RMul(bound, bound))

\* StudentProgressService._detect_anomalies(baseline, previous_essays, new_analysis);
\* a z-score is recorded by its square and the sign of its numerator
_detect_anomalies(baseline, previous_essays, new_analysis) ==
    IF "grade_level" \notin DOMAIN new_analysis \/ "grade_level" \notin DOMAIN baseline
    THEN EmptyDict
    ELSE
    LET grade_change == RSub(new_analysis["grade_level"], baseline["grade_level"])
        grade_sq == RMul(grade_change, grade_change)
        jump == AbsExceeds(grade_sq, grade_level_jump_threshold)
        z2(metric) == ZScoreSquared(AnalysisValues(previous_essays, metric),
                                    new_analysis[metric])
        anomalous == {metric \in MetricsInBoth(baseline, new_analysis) :
                        /\ AnalysisValues(previous_essays, metric) # <<>>
                        /\ AbsExceeds(z2(metric), anomaly_threshold)}
    IN  [key \in anomalous \cup (IF jump THEN {"grade_level_jump"} ELSE {}) |->
            IF key = "grade_level_jump"
            THEN [change |-> grade_change,
                  severity |-> IF AbsExceeds(grade_sq, RInt(3))
                               THEN "high" ELSE "medium"]
            ELSE [z_score_squared |-> z2(key),
                  above_mean |->
                      RGt(new_analysis[key],
                          Mean(AnalysisValues(previous_essays, key))),
                  severity |-> IF AbsExceeds(z2(key), RInt(3))
                               THEN "high" ELSE "medium"]]

\* settings["min_essays_for_trend"]
min_essays_for_trend == 3

\* np.polyfit(np.arange(len(values)), values, 1): the least-squares line
\* through (0, values[1]), (1, values[2]), ..., as [slope, intercept]
Polyfit(values) ==
    LET n == Len(values)
        x == [i \in 1 .. n |-> RInt(i - 1)]
        sx == RSum(x)
        sy == RSum(values)
        sxy == RSum([i \in 1 .. n |-> RMul(x[i], values[i])])
        sxx == RSum([i \in 1 .. n |-> RMul(x[i], x[i])])
        slope == RDiv(RSub(RMul(RInt(n), sxy), RMul(sx, sy)),
                      RSub(RMul(RInt(n), sxx), RMul(sx, sx)))
    IN  [slope |-> slope,
         intercept |-> RDiv(RSub(sy, RMul(slope, sx)), RInt(n))]

\* the result of a numpy division of zero by zero
NaN == [nan |-> TRUE]

\* _calculate_trend_strength(values): the R-squared of the fitted line; numpy
\* divides 0.0 by 0.0 to nan without raising
_calculate_trend_strength(values) ==
    LET z == Polyfit(values)
        y_hat == [i \in DOMAIN values |->
                    RAdd(RMul(z.slope, RInt(i - 1)), z.intercept)]
        y_bar == Mean(values)
        ss_tot == RSum([i \in DOMAIN values |->
                          RMul(RSub(values[i], y_bar), RSub(values[i], y_bar))])
        ss_res == RSum([i \in DOMAIN values |->
                          RMul(RSub(values[i], y_hat[i]), RSub(values[i], y_hat[i]))])
    IN  IF RIsZero(ss_tot) THEN NaN
        ELSE RSub(RInt(1), RDiv(ss_res, ss_tot))

\* the values list _analyze_trends builds for a metric
TrendValues(previous_essays, new_analysis, metric) ==
    Append(AnalysisValues(previous_essays, metric), new_analysis[metric])

\* StudentProgressService._analyze_trends(previous_essays, new_analysis); a
\* settings metric missing from new_analysis raises KeyError, which the
\* except branch turns into the same dict as too few essays
_analyze_trends(previous_essays, new_analysis) ==
    IF Len(previous_essays) < min_essays_for_trend
    THEN [sufficient_data |-> FALSE]
    ELSE IF \E i \in DOMAIN SettingsMetrics :
                SettingsMetrics[i] \notin DOMAIN new_analysis
    THEN [sufficient_data |-> FALSE]
    ELSE LET trended ==
                 {SettingsMetrics[i] : i \in
                    {j \in DOMAIN SettingsMetrics :
                        Len(TrendValues(previous_essays, new_analysis,
                                        SettingsMetrics[j]))
                            >= min_essays_for_trend}}
         IN  [sufficient_data |-> TRUE,
              metrics |->
                 [metric \in trended |->
                    LET values == TrendValues(previous_essays, new_analysis, metric)
                        slope == Polyfit(values).slope
                    IN  [slope |-> slope,
                         improving |-> RGt(slope, RInt(0)),
                         trend_strength |-> _calculate_trend_strength(values)]]]

\* the methods the collaborators of StudentProgressService define
\* (analysis/service.py, database/service.py, student/service.py)
AnalysisServiceMethods ==
    {"__init__", "analyze_text", "analyze_essay", "_analyze_content",
     "analyze_student_progress", "_detect_ai_content",
     "_calculate_perplexity", "_calculate_burstiness", "_calculate_entropy",
     "_calculate_repetition", "_analyze_sentence_structure",
     "_calculate_ai_probability", "_analyze_writing_quality",
     "_calculate_readability", "_analyze_structure", "_validate_content",
     "_split_into_chunks", "_count_syllables", "_calculate_grade_level",
     "_calculate_sentence_variety", "_has_introduction", "_has_conclusion",
     "_avg_paragraph_length", "_get_cached_analysis", "_count_words",
     "_count_sentences", "_analyze_readability", "_calculate_avg_syllables",
     "_analyze_vocabulary", "_calculate_complexity_score",
     "_calculate_complexity_change", "_calculate_style_consistency",
     "_calculate_vocabulary_improvement", "_calculate_anomaly_score",
     "update_settings"}
DatabaseServiceMethods ==
    {"__init__", "_ensure_directories", "_initialize_database",
     "store_essay", "update_student_baseline", "_load_collection",
     "_save_collection", "get_essay", "insert_essay", "update_essay",
     "delete_essay", "get_analysis", "get_analysis_by_essay",
     "insert_analysis", "update_analysis", "delete_analysis", "get_report",
     "insert_report", "get_user", "get_user_by_id", "insert_user",
     "update_user", "delete_user", "update_settings", "_clear_database",
     "_get_connection", "insert_student", "get_student", "update_student",
     "delete_student", "store_analysis"}
StudentProgressServiceMethods ==
    {"__init__", "set_student_baseline", "analyze_progress",
     "_calculate_progress_metrics", "_analyze_trends", "_detect_anomalies",
     "_generate_recommendations", "_calculate_trend_strength"}

\* DatabaseService.get_essay(essay_id) on the essays directory
None == [none |-> TRUE]
get_essay(essays_dir, essay_id) ==
    IF essay_id \in DOMAIN essays_dir THEN essays_dir[essay_id] ELSE None

\* the exception StudentProgressService.set_student_baseline(student_id,
\* essay_ids) raises inside its try block, "none" if it reaches the store
SetBaselineException(essays_dir, essay_ids) ==
    IF essay_ids # <<>> /\ get_essay(essays_dir, essay_ids[1]) = None
    THEN "ValueError"
    ELSE IF essay_ids # <<>> /\ "_analyze_text" \notin AnalysisServiceMethods
    THEN "AttributeError"
    ELSE IF \E i \in DOMAIN essay_ids : get_essay(essays_dir, essay_ids[i]) = None
    THEN "ValueError"
    ELSE IF "_calculate_average_metrics" \notin StudentProgressServiceMethods
    THEN "AttributeError"
    ELSE IF "set_student_baseline" \notin DatabaseServiceMethods
    THEN "AttributeError"
    ELSE "none"

\* the value StudentProgressService.set_student_baseline returns: the except
\* branch logs and returns False, the store is never reached
set_student_baseline(essays_dir, student_id, essay_ids) ==
    IF SetBaselineException(essays_dir, essay_ids) # "none" THEN FALSE
    ELSE TRUE

\* StudentProgressService._generate_recommendations(baseline, new_analysis);
\* a missing key raises KeyError and the except branch returns []
_generate_recommendations(baseline, new_analysis) ==
    IF \E k \in {"grade_level", "vocabulary_diversity", "coherence"} :
            k \notin DOMAIN baseline \/ k \notin DOMAIN new_analysis
    THEN <<>>
    ELSE (IF RLt(RSub(new_analysis["grade_level"], baseline["grade_level"]), RInt(0))
          THEN <<"grade_level">> ELSE <<>>)
         \o (IF RLt(new_analysis["vocabulary_diversity"],
                    baseline["vocabulary_diversity"])
             THEN <<"vocabulary">> ELSE <<>>)
         \o (IF RLt(new_analysis["coherence"], baseline["coherence"])
             THEN <<"coherence">> ELSE <<>>)

\* the exception StudentProgressService.analyze_progress(student_id,
\* new_essay_id) raises inside its try block, "none" if it reaches the return;
\* baseline is what the lookup of the student's baseline yields
AnalyzeProgressException(essays_dir, baseline, new_essay_id) ==
    IF "get_student_baseline" \notin DatabaseServiceMethods
    THEN "AttributeError"
    ELSE IF baseline = None
    THEN "ValueError"
    ELSE IF "get_student_essays" \notin DatabaseServiceMethods
    THEN "AttributeError"
    ELSE IF get_essay(essays_dir, new_essay_id) = None
    THEN "ValueError"
    ELSE IF "analyze_essay" \notin AnalysisServiceMethods
    THEN "AttributeError"
    ELSE IF "store_progress_report" \notin DatabaseServiceMethods
    THEN "AttributeError"
    ELSE "none"

\* the progress dict analyze_progress builds before it stores it
ProgressReport(student_id, new_essay_id, now, baseline, previous_essays, new_analysis) ==
    [student_id |-> student_id,
     essay_id |-> new_essay_id,
     timestamp |-> now,
     metrics |-> _calculate_progress_metrics(baseline, new_analysis),
     trends |-> _analyze_trends(previous_essays, new_analysis),
     anomalies |-> _detect_anomalies(baseline, previous_essays, new_analysis),
     recommendations |-> _generate_recommendations(baseline, new_analysis)]

\* the value StudentProgressService.analyze_progress returns: the progress
\* dict, or None from the except branch
analyze_progress(essays_dir, student_id, new_essay_id, now, baseline, previous_essays, new_analysis) ==
    IF AnalyzeProgressException(essays_dir, baseline, new_essay_id) # "none"
    THEN None
    ELSE ProgressReport(student_id, new_essay_id, now, baseline,
                        previous_essays, new_analysis)

(***************************************************************************)
(* ClassProgressService: analysis of a class                               *)
(***************************************************************************)
\* settings["min_students"] and settings["percentile_ranges"]
min_students == 5
percentile_ranges == <<25, 50, 75, 90>>

\* the values of a list in ascending order
RECURSIVE RSorted(_)
RSorted(values) ==
    IF values = <<>> THEN <<>>
    ELSE LET n == Len(values)
             front == RSorted(SubSeq(values, 1, n - 1))
             v == values[n]
             before == SelectSeq(front, LAMBDA x : ~RGt(x, v))
             after == SelectSeq(front, LAMBDA x : RGt(x, v))
         IN  before \o <<v>> \o after

\* np.percentile(values, q) of a non-empty list: linear interpolation between
\* the two closest ranks
Percentile(values, q) ==
    LET sorted == RSorted(values)
        position == q * (Len(values) - 1)
        lower == position \div 100
        fraction == Rat(position % 100, 100)
    IN  IF position % 100 = 0 THEN sorted[lower + 1]
        ELSE RAdd(sorted[lower + 1],
                  RMul(fraction, RSub(sorted[lower + 2], sorted[lower + 1])))

\* the values _calculate_class_metrics collects for a metric
RECURSIVE CurrentValues(_, _)
CurrentValues(student_progress, metric) ==
    IF student_progress = <<>> THEN <<>>
    ELSE LET rest == CurrentValues(Tail(student_progress), metric)
         IN  IF metric \in DOMAIN Head(student_progress).current
             THEN <<Head(student_progress).current[metric]>> \o rest
             ELSE rest

\* ClassProgressService._calculate_class_metrics(student_progress); the
\* standard deviation is recorded by its square
_calculate_class_metrics(student_progress) ==
    LET present == {SettingsMetrics[i] : i \in
                      {j \in DOMAIN SettingsMetrics :
                          CurrentValues(student_progress, SettingsMetrics[j]) # <<>>}}
    IN  [metric \in present |->
            LET values == CurrentValues(student_progress, metric)
            IN  [mean |-> Mean(values),
                 median |-> Percentile(values, 50),
                 std_squared |-> Variance(values),
                 percentiles |->
                    [q \in {percentile_ranges[i] : i \in DOMAIN percentile_ranges}
                        |-> Percentile(values, q)]]]

\* ClassProgressService._analyze_student_progress(student_id, time_period);
\* progress is what the function builds when its lookups succeed
_analyze_student_progress(progress) ==
    IF "get_student_essays" \notin DatabaseServiceMethods THEN None
    ELSE IF "get_student_baseline" \notin DatabaseServiceMethods THEN None
    ELSE progress

\* the student_progress list analyze_class_progress collects
RECURSIVE CollectStudentProgress(_)
CollectStudentProgress(students) ==
    IF students = <<>> THEN <<>>
    ELSE LET progress == _analyze_student_progress(Head(students))
             rest == CollectStudentProgress(Tail(students))
         IN  IF progress = None THEN rest ELSE <<progress>> \o rest

\* the dict analyze_class_progress returns for a class below min_students
InsufficientStudents == [error |-> "Insufficient students for reliable analysis"]

\* the exception ClassProgressService.analyze_class_progress(class_id) raises
\* inside its try block before it looks at the number of students
ClassLookupException(class_data) ==
    IF "get_class" \notin DatabaseServiceMethods THEN "AttributeError"
    ELSE IF class_data = None THEN "ValueError"
    ELSE IF "get_class_students" \notin DatabaseServiceMethods THEN "AttributeError"
    ELSE "none"

\* the value ClassProgressService.analyze_class_progress returns.  class_data
\* and students are what the lookups of the class and of its students yield.
\* Of the analysis dict only class_id, timestamp and metrics are modelled
analyze_class_progress(class_id, now, class_data, students) ==
    IF ClassLookupException(class_data) # "none" THEN None
    ELSE IF Len(students) < min_students THEN InsufficientStudents
    ELSE IF "store_class_analysis" \notin DatabaseServiceMethods THEN None
    ELSE [class_id |-> class_id,
          timestamp |-> now,
          metrics |-> _calculate_class_metrics(CollectStudentProgress(students))]

(***************************************************************************)
(* Essay text                                                              *)
(***************************************************************************)
\* A content string is modelled as text.count sentences of text.n copies of
\* the word text.word (a sequence of lower-case letters), the words one
\* space apart, each sentence closed by "." when text.stop holds:
\* "able able. able able." is [word "able", n 2, stop TRUE, count 2].
Text(word, n, stop, count) ==
    IF count = 0 \/ n = 0
    THEN [word |-> <<>>, n |-> 0, stop |-> FALSE, count |-> 0]
    ELSE [word |-> word, n |-> n, stop |-> stop, count |-> count]

\* the number of words and of "." in the text
WordTotal(text) == text.count * text.n
StopTotal(text) == IF text.stop THEN text.count ELSE 0

\* len(content), which is also len(content.strip())
Chars(text) ==
    IF WordTotal(text) = 0 THEN 0
    ELSE WordTotal(text) * Len(text.word) + (WordTotal(text) - 1) + StopTotal(text)

\* len(word_tokenize(content)): every word and every "." is a token
TokenCount(text) == WordTotal(text) + StopTotal(text)

\* len(sent_tokenize(content)): the text breaks after every "."
SentenceCount(text) ==
    IF text.stop THEN text.count
    ELSE IF WordTotal(text) > 0 THEN 1 ELSE 0

\* round(value, digits): the nearest multiple of 10^-digits, ties to even
Round(value, digits) ==
    LET scale == IF digits = 1 THEN 10 ELSE 100
        scaled == scale * value.n
        q == scaled \div value.d
        r == scaled % value.d
        nearest == IF 2 * r < value.d THEN q
                   ELSE IF 2 * r > value.d THEN q + 1
                   ELSE IF q % 2 = 0 THEN q ELSE q + 1
    IN  Rat(nearest, scale)

(***************************************************************************)
(* AnalysisService                                                         *)
(***************************************************************************)
\* settings["min_words"] and settings["max_words"]
min_words == 100
max_words == 10000

\* _validate_content(content): both settings are compared with the number
\* of characters
_validate_content(content) ==
    Chars(content) >= min_words /\ Chars(content) <= max_words

\* the number of maximal runs of letters of the set in the word
LetterRuns(word, letters) ==
    Cardinality({i \in DOMAIN word :
                    /\ word[i] \in letters
                    /\ (i = 1 \/ word[i - 1] \notin letters)})

\* _count_syllables(word)
_count_syllables(word) ==
    LET vowels == {"a", "e", "i", "o", "u", "y"}
        n == Len(word)
        runs == LetterRuns(word, vowels)
        silent == IF n > 0 /\ word[n] = "e" THEN runs - 1 ELSE runs
        count == IF /\ n > 2
                    /\ word[n] = "e"
                    /\ word[n - 1] = "l"
                    /\ word[n - 2] \notin vowels
                 THEN silent + 1 ELSE silent
    IN  IF count = 0 THEN 1 ELSE count

\* sum(self._count_syllables(word) for word in words): "." counts one
Syllables(text) ==
    WordTotal(text) * _count_syllables(text.word) + StopTotal(text)

\* _calculate_grade_level(content); nltk_ok is whether the tokenizers run
\* (they raise LookupError when their data is not installed)
_calculate_grade_level(content, nltk_ok) ==
    IF ~nltk_ok THEN RInt(0)
    ELSE IF TokenCount(content) = 0 \/ SentenceCount(content) = 0 THEN RInt(0)
    ELSE LET joined == WordTotal(content) * Len(content.word) + StopTotal(content)
             L == RMul(Rat(joined, TokenCount(content)), RInt(100))
             S == RMul(Rat(SentenceCount(content), TokenCount(content)), RInt(100))
             grade == RSub(RSub(RMul(Rat(588, 10000), L), RMul(Rat(296, 1000), S)),
                           Rat(158, 10))
         IN  Round(RMax(RInt(1), RMin(grade, RInt(12))), 1)

\* 0.39 * words_per_sentence + 11.8 * syllables_per_word - 15.59
FleschKincaid(words_per_sentence, syllables_per_word) ==
    RSub(RAdd(RMul(Rat(39, 100), words_per_sentence),
              RMul(Rat(118, 10), syllables_per_word)),
         Rat(1559, 100))

\* the dict the readability routines return when there is nothing to analyse
NoContent == [error |-> "No content to analyze"]

\* _calculate_readability(content)
_calculate_readability(content, nltk_ok) ==
    IF ~nltk_ok THEN [error |-> "LookupError"]
    ELSE IF TokenCount(content) = 0 \/ SentenceCount(content) = 0 THEN NoContent
    ELSE LET words_per_sentence == Rat(TokenCount(content), SentenceCount(content))
             syllables_per_word == Rat(Syllables(content), TokenCount(content))
             grade_level == FleschKincaid(words_per_sentence, syllables_per_word)
         IN  [grade_level |-> Round(RMax(RInt(0), RMin(grade_level, RInt(12))), 1),
              avg_syllables_per_word |-> Round(syllables_per_word, 2),
              avg_words_per_sentence |-> Round(words_per_sentence, 2)]

\* _calculate_avg_syllables(words): runs of [aeiou] in the alphanumeric
\* tokens, over the number of all tokens of a non-empty list
_calculate_avg_syllables(text) ==
    Rat(WordTotal(text) * LetterRuns(text.word, {"a", "e", "i", "o", "u"}),
        TokenCount(text))

\* _analyze_readability(text)
_analyze_readability(text, nltk_ok) ==
    IF ~nltk_ok \/ TokenCount(text) = 0 \/ SentenceCount(text) = 0
    THEN [score |-> RInt(0), grade_level |-> RInt(0)]
    ELSE LET avg_words_per_sentence == Rat(TokenCount(text), SentenceCount(text))
             avg_syllables_per_word == _calculate_avg_syllables(text)
             grade_level == FleschKincaid(avg_words_per_sentence,
                                          avg_syllables_per_word)
         IN  [score |-> Round(grade_level, 2),
              grade_level |-> Round(grade_level, 1),
              avg_words_per_sentence |-> Round(avg_words_per_sentence, 2),
              avg_syllables_per_word |-> Round(avg_syllables_per_word, 2)]

\* the "writing_quality" entry of analyze_text, of which the grade level is
\* modelled
_analyze_writing_quality(content, nltk_ok) ==
    IF ~nltk_ok THEN [error |-> "LookupError"]
    ELSE IF TokenCount(content) = 0 \/ SentenceCount(content) = 0 THEN NoContent
    ELSE [grade_level |-> _calculate_grade_level(content, nltk_ok)]

\* analyze_text(text): the ValueError raised on an invalid length is caught
\* by the except branch and returned as an error dict.  Of the result the
\* entries writing_quality and readability are modelled
analyze_text(text, nltk_ok) ==
    IF ~_validate_content(text)
    THEN [error |-> "Invalid content length"]
    ELSE [writing_quality |-> _analyze_writing_quality(text, nltk_ok),
          readability |-> _calculate_readability(text, nltk_ok)]

(***************************************************************************)
(* StorageService                                                          *)
(***************************************************************************)
\* self.min_content_length and self.max_content_length
min_content_length == 50
max_content_length == 10000

\* validate_essay_content(essay): the exception it raises, "none" if it
\* returns True
validate_essay_content(essay) ==
    IF Chars(essay.content) < min_content_length THEN "ValidationError"
    ELSE IF Chars(essay.content) > max_content_length THEN "ValidationError"
    ELSE "none"

\* save_essay(essay): the exception it raises, "none" if it returns True;
\* every failure inside it is raised again as StorageError
save_essay(essay, disk_ok) ==
    IF validate_essay_content(essay) # "none" THEN "StorageError"
    ELSE IF ~disk_ok THEN "StorageError"
    ELSE "none"

\* the metrics dict analyze_essay_metrics computes, or the exception raised
\* while computing it.  re.findall(r'\w+') finds the words; re.split on
\* [.!?]+ gives a non-empty list, of which the non-blank pieces are counted
EssayMetrics(content) ==
    LET words == WordTotal(content)
        pieces == SentenceCount(content)
    IN  IF pieces = 0 THEN Raise("ZeroDivisionError")
        ELSE Ok([word_count |-> RInt(words),
                 avg_word_length |->
                     IF words > 0 THEN Rat(words * Len(content.word), words)
                     ELSE RInt(0),
                 sentence_count |-> RInt(pieces),
                 avg_words_per_sentence |-> Rat(words, pieces)])

\* StorageService.analyze_essay_metrics(essay): [ret, saved], where saved
\* tells whether the essay file was written with the metrics
analyze_essay_metrics(essay, disk_ok) ==
    IF EssayMetrics(essay.content).exc # "none"
    THEN [ret |-> EmptyDict, saved |-> FALSE]
    ELSE IF save_essay(essay, disk_ok) # "none"
    THEN [ret |-> EmptyDict, saved |-> FALSE]
    ELSE [ret |-> EssayMetrics(essay.content).val, saved |-> TRUE]

(***************************************************************************)
(* BaselineService                                                         *)
(***************************************************************************)
\* the metrics store_baseline_essay assigns to every essay
BaselineMetrics ==
    [vocabulary_size |-> RInt(100), avg_word_length |-> Dec(50),
     avg_sentence_length |-> Dec(150), sentence_complexity |-> Dec(20),
     style_fingerprint |-> Dec(50), grade_level |-> Dec(80)]

\* essay.model_dump() after essay.metrics = metrics
BaselineDump(essay) == [essay EXCEPT !.metrics = BaselineMetrics]

(***************************************************************************)
(* DocumentProcessingService and the student_baselines table               *)
(***************************************************************************)
\* settings["baseline"]["max_samples"]
max_samples == 10

\* settings["baseline"]["required_confidence"]
required_confidence == Rat(75, 100)

\* baseline["samples"].sort(key=lambda x: x["added_at"]): a stable insertion
RECURSIVE SortedByAddedAt(_)
SortedByAddedAt(samples) ==
    IF samples = <<>> THEN <<>>
    ELSE LET n == Len(samples)
             front == SortedByAddedAt(SubSeq(samples, 1, n - 1))
             s == samples[n]
             before == SelectSeq(front, LAMBDA x : x.added_at <= s.added_at)
             after == SelectSeq(front, LAMBDA x : x.added_at > s.added_at)
         IN  before \o <<s>> \o after

\* the "Maintain sample limit" step of add_to_baseline, after the append
MaintainSampleLimit(samples) ==
    IF Len(samples) > max_samples
    THEN SubSeq(SortedByAddedAt(samples),
                Len(samples) - max_samples + 1, Len(samples))
    ELSE samples

\* the row update_student_baseline writes for baseline_data (the timestamp
\* columns are left out)
BaselineRow(student_id, baseline_data) ==
    [id |-> <<"baseline_", student_id>>,
     student_id |-> student_id,
     metrics |-> IF "metrics" \in DOMAIN baseline_data
                 THEN baseline_data.metrics ELSE EmptyDict,
     samples |-> baseline_data.samples,
     metadata |-> IF "metadata" \in DOMAIN baseline_data
                  THEN baseline_data.metadata ELSE EmptyDict]

\* DatabaseService.update_student_baseline(student_id, baseline_data) on the
\* student_baselines table: [ret, table].  An existing row keeps its id and
\* gets the new metrics, samples and metadata; db_ok is whether SQLite
\* carries out the statements
update_student_baseline(table, student_id, baseline_data, db_ok) ==
    IF ~db_ok \/ "samples" \notin DOMAIN baseline_data
    THEN [ret |-> FALSE, table |-> table]
    ELSE [ret |-> TRUE,
          table |-> [k \in DOMAIN table \cup {student_id} |->
                        IF k = student_id
                        THEN BaselineRow(student_id, baseline_data)
                        ELSE table[k]]]

\* DocumentProcessingService.add_to_baseline(student_id, document_path,
\* is_handwritten): [ret, table].  document is the outcome of processing the
\* file (its text and confidence, or the exception raised), now the clock
\* reading; the except branch logs and raises again
add_to_baseline(table, student_id, document, now, db_ok) ==
    IF document.exc # "none"
    THEN [ret |-> document, table |-> table]
    ELSE IF RLt(document.val.confidence, required_confidence)
    THEN [ret |-> Raise("ValueError"), table |-> table]
    ELSE IF "get_student_baseline" \notin DatabaseServiceMethods
    THEN [ret |-> Raise("AttributeError"), table |-> table]
    ELSE LET baseline == IF student_id \in DOMAIN table
                         THEN table[student_id]
                         ELSE [student_id |-> student_id, samples |-> <<>>]
             sample == [source |-> document.val.source,
                        confidence |-> document.val.confidence,
                        added_at |-> now]
             samples == MaintainSampleLimit(Append(baseline.samples, sample))
             stored == update_student_baseline(
                           table, student_id,
                           [baseline EXCEPT !.samples = samples], db_ok)
         IN  [ret |-> Ok([success |-> stored.ret,
                          baseline_samples |-> Len(samples),
                          latest_sample |-> sample]),
              table |-> stored.table]

\* the characters json.dump writes for the essay, each marked with the essay
\* it belongs to; of the dump the characters of the content are modelled
FileText(essay) == [i \in 1 .. Chars(essay.content) |-> <<essay.id, i>>]

\* a file after a write of data at offset 0: the data replace the characters
\* they cover and leave the characters behind them
WriteAtStart(text, data) ==
    IF Len(data) >= Len(text) THEN data
    ELSE data \o SubSeq(text, Len(data) + 1, Len(text))

(***************************************************************************)
(* Essays                                                                  *)
(***************************************************************************)
\* the metric names ProgressService reads from Essay.metrics
ProgressMetrics ==
    {"grade_level", "vocabulary_size", "sentence_complexity", "style_fingerprint"}

\* models/essay.py Essay: created_at is a day number; content is modelled by
\* what the style helpers compute on it; metrics is the attached metric dict
Essay(id, day, grade, vocab, complexity, style) ==
    [id |-> id, student_id |-> "student_1", created_at |-> day,
     content |->
        [raises |-> FALSE,
         style |-> [m \in StyleMetrics |->
                      CASE m = "percentile" -> Dec(500)
                        [] m = "grade_level" -> Dec(grade)
                        [] m = "vocab" -> RInt(vocab)
                        [] m = "complexity" -> Dec(complexity)
                        [] m = "style" -> Dec(style)]],
     metrics |->
        [m \in ProgressMetrics |->
            CASE m = "grade_level" -> Dec(grade)
              [] m = "vocabulary_size" -> RInt(vocab)
              [] m = "sentence_complexity" -> Dec(complexity)
              [] m = "style_fingerprint" -> Dec(style)]]

\* the essays the operations are applied to
EssayPool ==
    { Essay("base", 0, 80, 500, 20, 50),
      Essay("typical", 365, 85, 550, 22, 55),
      Essay("jump", 73, 94, 500, 20, 50),
      Essay("sameday", 0, 115, 900, 40, 90),
      Essay("same", 365, 80, 500, 20, 50),
      Essay("novocab", 0, 80, 0, 20, 50) }

\* an essay on whose content a style helper raises
Unextractable(e) == [e EXCEPT !.content.raises = TRUE]

DetectionEssays == EssayPool \cup {Unextractable(e) : e \in EssayPool}

\* outcomes of the call self._calculate_similarity(...)
SimilarityOutcomes ==
    {Raise("AttributeError"), Ok(Dec(0)), Ok(Dec(5)), Ok(Dec(10)), Ok(Dec(15))}

\* the time spans of the pool, in years
TimeSpans == {Rat(0, 365), Rat(73, 365), Rat(365, 365), Rat(-73, 365)}

\* the keys an improvements map may carry
ImprovementKeys == {ChangeKey(m) : m \in StyleMetrics} \cup ThresholdKeys

\* yearly rates: around the bands of the percent metrics and of grade_level
RateValues == {Dec(0), Dec(5), Dec(17), Dec(70), Dec(100), Dec(270), Dec(400)}

\* the improvements maps with at most MaxImprovements entries
ImprovementMaps ==
    UNION { [ks -> RateValues] :
            ks \in {x \in SUBSET ImprovementKeys : Cardinality(x) <= MaxImprovements} }

\* metric dicts handed to _calculate_improvements directly
StyleDicts ==
    {e.content.style : e \in EssayPool}
    \cup {[m \in {"grade_level", "vocab"} |-> e.content.style[m]] : e \in EssayPool}
    \cup {[m \in {"grade_level"} |-> e.content.style[m]] : e \in EssayPool}

\* the lists of distinct pool essays with at most MaxEssays entries
RECURSIVE EssayLists(_)
EssayLists(n) ==
    IF n = 0 THEN {<<>>}
    ELSE LET shorter == EssayLists(n - 1)
         IN  shorter \cup
             {Append(l, e) : l \in {x \in shorter : Len(x) = n - 1},
                             e \in EssayPool}

DistinctEssayLists ==
    {l \in EssayLists(MaxEssays) :
        \A i, j \in 1 .. Len(l) : i # j => l[i].id # l[j].id}

\* an analysis dict over the settings metrics
Analysis(grade, vocabulary) ==
    [metric \in {SettingsMetrics[i] : i \in DOMAIN SettingsMetrics} |->
        CASE metric = "grade_level" -> Dec(grade)
          [] metric = "vocabulary_diversity" -> Rat(vocabulary, 100)
          [] OTHER -> Dec(5)]

\* the baseline and analysis dicts the student and class operations get;
\* the last two lack a settings metric
AnalysisDicts ==
    { Analysis(80, 50), Analysis(85, 55), Analysis(115, 90), Analysis(0, 0),
      Analysis(94, 50),
      [vocabulary_diversity |-> Rat(50, 100)],
      [grade_level |-> Dec(80), coherence |-> Dec(0)] }

\* a stored essay as get_student_essays would return it, with or without
\* its analysis
PreviousEssays ==
    {[analysis |-> a] : a \in {Analysis(80, 50), Analysis(85, 55), Analysis(80, 90)}}
    \cup {[id |-> "unanalysed"]}

RECURSIVE ListsOver(_, _)
ListsOver(S, n) ==
    IF n = 0 THEN {<<>>}
    ELSE LET shorter == ListsOver(S, n - 1)
         IN  shorter \cup
             {Append(l, e) : l \in {x \in shorter : Len(x) = n - 1}, e \in S}

\* the essays that get inserted into the essays directory
InsertableEssays == {e \in EssayPool : e.id \in {"base", "typical", "jump"}}

\* the essay ids callers ask baselines for
EssayIds == {"base", "typical", "jump", "missing"}

\* the lists of stored essays with at most MaxHistory entries
EssayHistories == ListsOver(PreviousEssays, MaxHistory)

\* what the student's stored baseline may be: none, or an analysis dict
StoredBaselines == {None, Analysis(80, 50), Analysis(0, 0)}

\* the analyses of the new essay
NewAnalyses == {Analysis(85, 55), Analysis(115, 90)}

\* the progress dict of a student, by the analysis of the latest essay
StudentProgress(current) ==
    [baseline |-> Analysis(80, 50), current |-> current,
     improvement |-> _calculate_improvement(Analysis(80, 50), current)]

\* the progress dicts of the students of a class; the last lacks metrics
StudentProgresses ==
    {StudentProgress(a) : a \in {Analysis(80, 50), Analysis(115, 90),
                                 [grade_level |-> Dec(60)]}}

\* the student_progress lists of classes with at most MaxStudents students
ClassProgresses == ListsOver(StudentProgresses, MaxStudents)

\* what the lookup of a class may yield
ClassDatas == {None, [id |-> "class_1"]}

\* the words of the texts: "a", "be", "able", a word of five syllables and
\* a word of sixty letters
TextWords ==
    { <<"a">>, <<"b", "e">>, <<"a", "b", "l", "e">>,
      <<"a", "b", "a", "b", "a", "b", "a", "b", "a", "b">>,
      [i \in 1 .. 60 |-> IF i % 2 = 1 THEN "b" ELSE "a"] }

\* the numbers of words of a sentence
SentenceLengths == {1, 20, 40, 2000, 2500, 10001}

\* the essay contents: at most MaxSentences sentences, closed by "." or not
Texts ==
    {Text(word, n, stop, count) :
        word \in TextWords, n \in SentenceLengths, stop \in BOOLEAN,
        count \in 0 .. MaxSentences}

\* the ids of the essays handed to StorageService
StoredEssayIds == {"essay_1"}

\* the contents no longer than the longest content analyze_text admits, to
\* which the readability routines are applied
AdmittedTexts == {text \in Texts : Chars(text) <= max_words}

\* the processes or threads that call the baseline stores at the same time
Writers == {"w1", "w2"}

\* a writer between two calls
IdleWriter == [pc |-> "idle"]

\* the essays the concurrent writers store as baselines of one student; their
\* contents differ in length
RacingEssays ==
    { [id |-> "short", student_id |-> "student_1", metrics |-> None,
       content |-> Text(<<"b", "e">>, 1, FALSE, 1)],
      [id |-> "long", student_id |-> "student_1", metrics |-> None,
       content |-> Text(<<"a", "b", "l", "e">>, 1, TRUE, 1)],
      [id |-> "other", student_id |-> "student_2", metrics |-> None,
       content |-> Text(<<"a">>, 1, FALSE, 1)] }

\* the students of the class
StudentIds == {"student_1", "student_2"}

\* a baseline sample as add_to_baseline builds it
Sample(source, added_at) ==
    [source |-> source, confidence |-> Dec(10), added_at |-> added_at]

\* the baseline_data dicts the concurrent writers store
RacingBaselineDatas ==
    {[samples |-> [i \in 1 .. n |-> Sample(i, i)]] : n \in 1 .. 2}

\* the samples lists with at most MaxSamples entries, in the order of their
\* dates and against it
SampleLists ==
    {[i \in 1 .. n |-> Sample(i, i)] : n \in 0 .. MaxSamples}
    \cup {[i \in 1 .. n |-> Sample(i, n + 1 - i)] : n \in 0 .. MaxSamples}

\* the baseline_data dicts handed to update_student_baseline; the last has
\* no "samples"
BaselineDatas ==
    {[samples |-> l] : l \in SampleLists}
    \cup {[samples |-> l, metrics |-> BaselineMetrics] : l \in SampleLists}
    \cup {[metrics |-> BaselineMetrics]}

\* outcomes of processing the document handed to add_to_baseline
Documents ==
    {Raise("RuntimeError")}
    \cup {Ok([source |-> "scan", confidence |-> c]) : c \in {Dec(5), Dec(8), Dec(10)}}

\* readings of datetime.now(), as day numbers
ClockReadings == {12, 13}

(***************************************************************************)
(* Dicts                                                                   *)
(***************************************************************************)
\* a dict with one entry set, as a file written under a directory
Put(dict, key, value) ==
    [k \in DOMAIN dict \cup {key} |-> IF k = key THEN value ELSE dict[k]]

\* dict.update(changes)
Update(dict, changes) ==
    [k \in DOMAIN dict \cup DOMAIN changes |->
        IF k \in DOMAIN changes THEN changes[k] ELSE dict[k]]

\* the dict after del dict[key] for every key of keys
Remove(dict, keys) == [k \in DOMAIN dict \ keys |-> dict[k]]

(***************************************************************************)
(* UserService                                                             *)
(***************************************************************************)
\* settings["min_password_length"] and settings["max_password_length"]
min_password_length == 8
max_password_length == 128
\* settings["max_login_attempts"]
max_login_attempts == 5
\* settings["lockout_duration"], in seconds
lockout_duration == 900

\* a string with what the validations read of it
Username(text, len, isalnum) == [text |-> text, len |-> len, isalnum |-> isalnum]
Password(text, len, special, digit) ==
    [text |-> text, len |-> len, special |-> special, digit |-> digit]
Email(text, at, dot_after_at) == [text |-> text, at |-> at, dot_after_at |-> dot_after_at]

_validate_username(username) ==
    3 <= username.len /\ username.len <= 32 /\ username.isalnum

\* password_requires_special and password_requires_number are both set
_validate_password(password) ==
    /\ min_password_length <= password.len
    /\ password.len <= max_password_length
    /\ password.special
    /\ password.digit

_validate_email(email) == email.at /\ email.dot_after_at

\* DatabaseService.get_user
get_user(user_dicts, username) ==
    IF username.text \in DOMAIN user_dicts THEN user_dicts[username.text] ELSE None

\* bcrypt.hashpw and bcrypt.checkpw
Hashed(password) == [hash_of |-> password.text]
CheckPw(password, password_hash) == password_hash.hash_of = password.text

\* UserService.register_user: the user id or None, and the users
register_user(user_dicts, username, password, email, now) ==
    IF \/ ~_validate_username(username)
       \/ ~_validate_password(password)
       \/ ~_validate_email(email)
       \/ get_user(user_dicts, username) # None
    THEN [ret |-> None, users |-> user_dicts]
    ELSE [ret |-> [user_id |-> now],
          users |-> Put(user_dicts, username.text,
                        [id |-> [user_id |-> now], username |-> username.text,
                         email |-> email.text, password_hash |-> Hashed(password),
                         role |-> "user", status |-> "active"])]

\* min(attempts)
Oldest(attempts) == CHOOSE t \in attempts : \A u \in attempts : t <= u

\* UserService._check_login_attempts: whether the login may be attempted,
\* and the attempts it leaves
_check_login_attempts(attempts, name, now) ==
    IF name \notin DOMAIN attempts
    THEN [ret |-> TRUE, login_attempts |-> attempts]
    ELSE IF Cardinality(attempts[name]) < max_login_attempts
    THEN [ret |-> TRUE, login_attempts |-> attempts]
    ELSE IF now - Oldest(attempts[name]) > lockout_duration
    THEN [ret |-> TRUE, login_attempts |-> Put(attempts, name, {})]
    ELSE [ret |-> FALSE, login_attempts |-> attempts]

\* UserService._record_login_attempt: the attempts are a set of readings of
\* time.time(), so a reading recorded twice is kept once
_record_login_attempt(attempts, name, success, now) ==
    IF success THEN Put(attempts, name, {})
    ELSE Put(attempts, name,
             (IF name \in DOMAIN attempts THEN attempts[name] ELSE {}) \cup {now})

\* UserService.authenticate: the token or None, and the login attempts
authenticate(user_dicts, attempts, username, password, now) ==
    LET name == username.text
        checked == _check_login_attempts(attempts, name, now)
        user == get_user(user_dicts, username)
    IN  IF ~checked.ret
        THEN [ret |-> None, login_attempts |-> checked.login_attempts]
        ELSE IF user = None
        THEN [ret |-> None,
              login_attempts |->
                  _record_login_attempt(checked.login_attempts, name, FALSE, now)]
        ELSE IF ~CheckPw(password, user.password_hash)
        THEN [ret |-> None,
              login_attempts |->
                  _record_login_attempt(checked.login_attempts, name, FALSE, now)]
        ELSE [ret |-> [token |-> name, iat |-> now],
              login_attempts |->
                  _record_login_attempt(checked.login_attempts, name, TRUE, now)]

\* the usernames, passwords and emails of the calls
Usernames == {Username("testuser", 8, TRUE), Username("ab", 2, TRUE)}
Passwords ==
    {Password("Test123!@#", 10, TRUE, TRUE), Password("wrong_password", 14, TRUE, FALSE)}
Emails == {Email("test@example.com", TRUE, TRUE), Email("test", FALSE, FALSE)}
AuthUsernames == {"testuser"}

\* the seconds the clock is advanced by at once between two logins
UserSleeps == {1, lockout_duration}

(***************************************************************************)
(* ConfigService                                                           *)
(*                                                                         *)
(* self.defaults.copy() is a shallow copy: the top-level dict is new and   *)
(* its values are the nested dicts of self.defaults themselves. The nested *)
(* dicts are therefore objects with an identity, kept in dicts, and a      *)
(* top-level dict holds references to them. Keys of one and two parts are  *)
(* modelled.                                                               *)
(***************************************************************************)
\* the values of a dict: numbers, strings, lists and references to dicts
Num(n) == [num |-> n]
Float(r) == [float |-> r]
StrValue(s) == [str |-> s]
ListValue(l) == [list |-> l]
Ref(object) == [ref |-> object]
IsRef(value) == "ref" \in DOMAIN value

\* the literal of self._default_config
DefaultConfigLiteral ==
    [api |-> [timeout |-> Num(30), retries |-> Num(3),
              base_url |-> StrValue("http://localhost:8000")],
     storage |-> [max_size |-> Num(1024 * 1024 * 100),
                  allowed_types |-> ListValue(<<"txt", "pdf", "doc", "docx">>)],
     analysis |-> [min_words |-> Num(100), max_words |-> Num(10000),
                   similarity_threshold |-> Float(Dec(8))],
     security |-> [token_expiry |-> Num(24 * 60 * 60), max_login_attempts |-> Num(5)]]

\* a top-level dict whose nested dicts are those of the owner
TopLevel(owner) == [section \in DOMAIN DefaultConfigLiteral |-> Ref(<<owner, section>>)]

\* self._default_config and self.defaults = deepcopy(self._default_config)
_default_config == TopLevel("_default_config")
defaults == TopLevel("defaults")

\* the nested dicts after the constructor has built both
BuiltDicts ==
    [object \in {"_default_config", "defaults"} \X DOMAIN DefaultConfigLiteral |->
        DefaultConfigLiteral[object[2]]]

\* what json.dump writes for a value: a dict by its content
Dumped(top, objects) ==
    [section \in DOMAIN top |->
        IF IsRef(top[section]) THEN [dict |-> objects[top[section].ref]]
        ELSE top[section]]

\* json.load: the top-level dict, with new nested dicts
LoadedTop(file) ==
    [section \in DOMAIN file |->
        IF "dict" \in DOMAIN file[section] THEN Ref(<<"loaded", section>>)
        ELSE file[section]]

LoadedDicts(objects, file) ==
    [object \in DOMAIN objects
                  \cup {<<"loaded", section>> : section \in
                           {s \in DOMAIN file : "dict" \in DOMAIN file[s]}} |->
        IF object[1] = "loaded" /\ object[2] \in DOMAIN file
           /\ "dict" \in DOMAIN file[object[2]]
        THEN file[object[2]].dict
        ELSE objects[object]]

\* value = top; for part in parts: value = value[part]
Walk(top, objects, parts) ==
    IF parts[1] \notin DOMAIN top THEN Raise("KeyError")
    ELSE IF Len(parts) = 1 THEN Ok(top[parts[1]])
    ELSE IF ~IsRef(top[parts[1]]) THEN Raise("TypeError")
    ELSE IF parts[2] \notin DOMAIN objects[top[parts[1]].ref] THEN Raise("KeyError")
    ELSE Ok(objects[top[parts[1]].ref][parts[2]])

\* a value as its caller sees it: a dict by its content
Seen(objects, value) ==
    IF IsRef(value) THEN [dict |-> objects[value.ref]] ELSE value

\* ConfigService.get
config_get(top, objects, parts, default) ==
    LET configured == Walk(top, objects, parts)
        fallback == Walk(defaults, objects, parts)
    IN  IF configured.exc = "none" THEN Seen(objects, configured.val)
        ELSE IF fallback.exc = "none" THEN Seen(objects, fallback.val)
        ELSE default

\* ConfigService.set: the flag returned, the top-level dict, the nested dicts
\* and the file. disk_ok is whether _save_config can write the file
config_set(top, objects, file, parts, value, disk_ok) ==
    LET unchanged == [ret |-> FALSE, config |-> top, dicts |-> objects, file |-> file]
        saved(new_top, new_objects) ==
            [ret |-> disk_ok, config |-> new_top, dicts |-> new_objects,
             file |-> IF disk_ok THEN Dumped(new_top, new_objects) ELSE file]
    IN  IF Len(parts) = 1 THEN saved(Put(top, parts[1], value), objects)
        ELSE IF parts[1] \notin DOMAIN top
        THEN saved(Put(top, parts[1], Ref(<<"created", parts[1]>>)),
                   Put(objects, <<"created", parts[1]>>, Put(EmptyDict, parts[2], value)))
        ELSE IF ~IsRef(top[parts[1]]) THEN unchanged
        ELSE saved(top, Put(objects, top[parts[1]].ref,
                            Put(objects[top[parts[1]].ref], parts[2], value)))

\* ConfigService.reset: the default found in self._default_config is handed
\* to set as it is, a nested dict by reference
config_reset(top, objects, file, parts, disk_ok) ==
    LET default_value == Walk(_default_config, objects, parts)
    IN  IF default_value.exc # "none"
        THEN [ret |-> FALSE, config |-> top, dicts |-> objects, file |-> file]
        ELSE config_set(top, objects, file, parts, default_value.val, disk_ok)

\* ConfigService.reset_all: self.config = self.defaults.copy(), saved and
\* loaded back
reset_all(objects, file, disk_ok) ==
    IF ~disk_ok
    THEN [ret |-> FALSE, config |-> defaults, dicts |-> objects, file |-> file]
    ELSE LET written == Dumped(defaults, objects)
         IN  [ret |-> TRUE, config |-> LoadedTop(written),
              dicts |-> LoadedDicts(objects, written), file |-> written]

\* ConfigService.__init__ and _load_config
ConfigServiceInit(file, disk_ok) ==
    IF file # None
    THEN [config |-> LoadedTop(file), dicts |-> LoadedDicts(BuiltDicts, file),
          file |-> file]
    ELSE [config |-> defaults, dicts |-> BuiltDicts,
          file |-> IF disk_ok THEN Dumped(defaults, BuiltDicts) ELSE None]

\* the keys and values of the calls
ConfigKeys == {<<"api", "timeout">>, <<"api">>, <<"new", "value">>, <<"missing">>}
SetKeys == {<<"api", "timeout">>, <<"api">>, <<"new", "value">>}
ConfigValues == {Num(60)}

(***************************************************************************)
(* HealthService                                                           *)
(***************************************************************************)
monitor_interval == 60
join_timeout == 5

\* get_system_health: the status with its timestamp, or {} when reading the
\* system or the application metrics raised
get_system_health(raised, now) ==
    IF raised THEN EmptyDict ELSE [timestamp |-> now, status |-> "healthy"]

\* a thread of _monitor_health
Monitor(pc, health_status) == [pc |-> pc, health_status |-> health_status]

\* the body of "with self.history_lock" in _monitor_health: the list after
\* the append, and after the filter when no entry["timestamp"] raises
AppendHealth(history, health_status, now) ==
    LET appended == Append(history, health_status)
        cutoff_time == now - (24 * 3600)
    IN  IF \E i \in DOMAIN appended : "timestamp" \notin DOMAIN appended[i]
        THEN [raised |-> TRUE, health_history |-> appended]
        ELSE [raised |-> FALSE,
              health_history |->
                  SelectSeq(appended, LAMBDA entry : entry.timestamp > cutoff_time)]

\* join(timeout=5) returns when the thread has ended, or at the timeout; a
\* thread in threading.Event().wait(monitor_interval) outlasts the timeout
JoinReturns(thread) ==
    \/ thread.pc = "terminated"
    \/ thread.pc = "error_wait" /\ monitor_interval > join_timeout

(***************************************************************************)
(* RealTimeCollaboration                                                   *)
(*                                                                         *)
(* The methods are coroutines of one event loop: each runs without         *)
(* interruption up to an await that suspends it.                           *)
(***************************************************************************)
\* the entry _queue_change appends; the reading of datetime.now() grows with
\* every change
QueuedChange(participant_id, change, timestamp) ==
    [participant_id |-> participant_id, change |-> change, timestamp |-> timestamp]

\* _resolve_conflicts on changes whose values are not dicts: the keys of the
\* change are written over the base
_resolve_conflicts(base, change) == Update(base, change)

\* _merge_changes with auto_resolve; the queue is in the order of its
\* timestamps
RECURSIVE _merge_changes(_)
_merge_changes(changes) ==
    IF changes = <<>> THEN EmptyDict
    ELSE _resolve_conflicts(_merge_changes(SubSeq(changes, 1, Len(changes) - 1)),
                            changes[Len(changes)].change)

\* _register_participant
_register_participant(session_dicts, participant_dicts, queues, participant_id, session_id) ==
    LET created == session_id \notin DOMAIN session_dicts
        opened == IF created
                  THEN Put(session_dicts, session_id,
                           [participants |-> {}, state |-> EmptyDict])
                  ELSE session_dicts
    IN  [sessions |-> [opened EXCEPT ![session_id].participants = @ \cup {participant_id}],
         participants |-> Put(participant_dicts, participant_id, session_id),
         changes_queue |-> IF created THEN Put(queues, session_id, <<>>) ELSE queues,
         created |-> created]

\* _unregister_participant
_unregister_participant(session_dicts, participant_dicts, queues, participant_id, session_id) ==
    LET left == IF session_id \in DOMAIN session_dicts
                THEN session_dicts[session_id].participants \ {participant_id}
                ELSE {}
        deleted == session_id \in DOMAIN session_dicts /\ left = {}
    IN  [sessions |-> IF deleted THEN Remove(session_dicts, {session_id})
                      ELSE IF session_id \in DOMAIN session_dicts
                      THEN [session_dicts EXCEPT ![session_id].participants = left]
                      ELSE session_dicts,
         participants |-> Remove(participant_dicts, {participant_id}),
         changes_queue |-> IF deleted THEN Remove(queues, {session_id}) ELSE queues,
         deleted |-> deleted]

\* the sessions, participants and changes of the calls
SessionIds == {"s1"}
ParticipantIds == {"p1", "p2"}
ChangeKeys == {"title", "body"}

\* the history of a session
NothingQueued == [queued |-> {}, merged |-> {}]

\* the timestamps of a list of queued changes
Timestamps(changes) == {changes[i].timestamp : i \in DOMAIN changes}

(***************************************************************************)
(* CacheService                                                            *)
(*                                                                         *)
(* The files _save_cache writes are not part of the model: no operation    *)
(* reads them after construction and _save_cache swallows its errors.      *)
(***************************************************************************)
\* settings["default_ttl"], in seconds
default_ttl == 3600
\* settings["max_size"]: the longest str(value) a cache accepts
max_size == 1000000

\* a cached value: a string of len copies of a character
Str(char, len) == [char |-> char, len |-> len]

\* an optional int argument that was supplied
Some(i) == [int |-> i]

\* expire_in or self.settings["default_ttl"]: None and 0 are both falsy
ExpireInOrDefault(expire_in) ==
    IF expire_in = None THEN default_ttl
    ELSE IF expire_in.int = 0 THEN default_ttl
    ELSE expire_in.int

\* time.time() > item["expire_at"]
_is_expired(item, now) == now > item.expire_at

\* sum(len(str(item["value"])) for item in cache.values())
RECURSIVE SizeOfItems(_)
SizeOfItems(cache) ==
    IF DOMAIN cache = {} THEN 0
    ELSE LET key == CHOOSE k \in DOMAIN cache : TRUE
         IN  cache[key].value.len + SizeOfItems(Remove(cache, {key}))

\* the metadata after _update_metadata(cache_name)
_update_metadata(cache_dicts, meta, cache_name, now) ==
    Put(meta, cache_name,
        Update(meta[cache_name],
               [size |-> SizeOfItems(cache_dicts[cache_name]),
                item_count |-> Cardinality(DOMAIN cache_dicts[cache_name]),
                updated_at |-> now]))

\* CacheService.get: the value returned and the caches it leaves. An expired
\* item is deleted without a call of _update_metadata
cache_get(cache_dicts, cache_name, key, now) ==
    IF cache_name \notin DOMAIN cache_dicts
    THEN [ret |-> None, caches |-> cache_dicts]
    ELSE LET cache == cache_dicts[cache_name] IN
         IF key \notin DOMAIN cache
         THEN [ret |-> None, caches |-> cache_dicts]
         ELSE IF _is_expired(cache[key], now)
         THEN [ret |-> None,
               caches |-> Put(cache_dicts, cache_name, Remove(cache, {key}))]
         ELSE [ret |-> cache[key].value,
               caches |-> Put(cache_dicts, cache_name,
                              Put(cache, key, [cache[key] EXCEPT !.accessed_at = now]))]

\* CacheService.set: the flag returned, the caches and the metadata. The
\* cache and its metadata are created before the size of the value is checked
cache_set(cache_dicts, meta, cache_name, key, value, expire_in, now) ==
    LET known == cache_name \in DOMAIN cache_dicts
        created == IF known THEN cache_dicts ELSE Put(cache_dicts, cache_name, EmptyDict)
        described == IF known THEN meta
                     ELSE Put(meta, cache_name,
                              [created_at |-> now, size |-> 0, item_count |-> 0])
        item == [value |-> value, created_at |-> now, accessed_at |-> now,
                 expire_at |-> now + ExpireInOrDefault(expire_in)]
        stored == Put(created, cache_name, Put(created[cache_name], key, item))
    IN  IF value.len > max_size
        THEN [ret |-> FALSE, caches |-> created, metadata |-> described]
        ELSE [ret |-> TRUE, caches |-> stored,
              metadata |-> _update_metadata(stored, described, cache_name, now)]

\* CacheService.delete
cache_delete(cache_dicts, meta, cache_name, key, now) ==
    IF cache_name \notin DOMAIN cache_dicts
    THEN [ret |-> FALSE, caches |-> cache_dicts, metadata |-> meta]
    ELSE IF key \notin DOMAIN cache_dicts[cache_name]
    THEN [ret |-> FALSE, caches |-> cache_dicts, metadata |-> meta]
    ELSE LET deleted == Put(cache_dicts, cache_name,
                            Remove(cache_dicts[cache_name], {key}))
         IN  [ret |-> TRUE, caches |-> deleted,
              metadata |-> _update_metadata(deleted, meta, cache_name, now)]

\* CacheService.clear that updates the metadata and keeps the entries
cache_clear_keeping_entries(cache_dicts, meta, cache_name, now) ==
    IF cache_name \notin DOMAIN cache_dicts
    THEN [ret |-> FALSE, caches |-> cache_dicts, metadata |-> meta]
    ELSE [ret |-> TRUE, caches |-> cache_dicts,
          metadata |-> _update_metadata(cache_dicts, meta, cache_name, now)]

\* CacheService.clear
cache_clear(cache_dicts, meta, cache_name, now) ==
    IF cache_name \notin DOMAIN cache_dicts
    THEN [ret |-> FALSE, caches |-> cache_dicts, metadata |-> meta]
    ELSE LET cleared == Put(cache_dicts, cache_name, EmptyDict)
         IN  [ret |-> TRUE, caches |-> cleared,
              metadata |-> _update_metadata(cleared, meta, cache_name, now)]

\* re.compile(pattern.replace("*", ".*")).match(key), for patterns of literal
\* characters and "*": the pattern matches a prefix of the key
RECURSIVE PatternMatches(_, _)
PatternMatches(pattern, key) ==
    IF pattern = <<>> THEN TRUE
    ELSE IF Head(pattern) = "*"
    THEN \E i \in 0 .. Len(key) :
            PatternMatches(Tail(pattern), SubSeq(key, i + 1, Len(key)))
    ELSE /\ key # <<>>
         /\ Head(key) = Head(pattern)
         /\ PatternMatches(Tail(pattern), Tail(key))

\* CacheService.clear_pattern
clear_pattern(cache_dicts, meta, cache_name, pattern, now) ==
    IF cache_name \notin DOMAIN cache_dicts
    THEN [ret |-> FALSE, caches |-> cache_dicts, metadata |-> meta]
    ELSE LET cache == cache_dicts[cache_name]
             keys_to_delete == {key \in DOMAIN cache : PatternMatches(pattern, key)}
             cleared == Put(cache_dicts, cache_name, Remove(cache, keys_to_delete))
         IN  [ret |-> TRUE, caches |-> cleared,
              metadata |-> _update_metadata(cleared, meta, cache_name, now)]

\* the expired keys of a cache
ExpiredKeys(cache, now) == {key \in DOMAIN cache : _is_expired(cache[key], now)}

\* CacheService._cleanup_expired: the caches and the metadata after the run.
\* The metadata of a cache is updated when the run removed a key of it
RECURSIVE CleanupCaches(_, _, _, _)
CleanupCaches(names, cache_dicts, meta, now) ==
    IF names = {} THEN [caches |-> cache_dicts, metadata |-> meta]
    ELSE LET cache_name == CHOOSE name \in names : TRUE
             expired_keys == ExpiredKeys(cache_dicts[cache_name], now)
             cleaned == Put(cache_dicts, cache_name,
                            Remove(cache_dicts[cache_name], expired_keys))
         IN  IF expired_keys = {}
             THEN CleanupCaches(names \ {cache_name}, cache_dicts, meta, now)
             ELSE CleanupCaches(names \ {cache_name}, cleaned,
                                _update_metadata(cleaned, meta, cache_name, now), now)

_cleanup_expired(cache_dicts, meta, now) ==
    CleanupCaches(DOMAIN cache_dicts, cache_dicts, meta, now)

\* the cache names, keys, values, lifetimes and patterns of the calls
CacheNames == {"test_cache"}
CacheKeys == {<<"k", "1">>, <<"k", "2">>}
CacheValues == {Str("a", 1), Str("b", 2), Str("c", max_size + 1)}
ExpireIns == {None, Some(0), Some(1)}
CachePatterns == {<<"*">>, <<"k", "1">>, <<"*", "2">>, <<"x">>}

\* the seconds the clock is advanced by at once
CacheSleeps == {1, default_ttl}

\* the number of advances that lead to a clock reading
Sleeps(reading) ==
    (reading \div default_ttl) + ((reading % default_ttl) \div lockout_duration)
        + (reading % lockout_duration)

\* history: no successful set of the entry yet
NeverSet == [written |-> FALSE]

\* history: the entry was set at the reading at, with the lifetime expire_in
LastSet(value, at, expire_in) ==
    [written |-> TRUE, value |-> value, at |-> at, expire_in |-> expire_in,
     removed |-> FALSE]

\* history: the entries of the keys were deleted or cleared
MarkRemoved(log, cache_name, keys) ==
    [entry \in DOMAIN log |->
        IF entry[1] = cache_name /\ entry[2] \in keys /\ log[entry].written
        THEN [log[entry] EXCEPT !.removed = TRUE]
        ELSE log[entry]]

(***************************************************************************)
(* SchedulerService                                                        *)
(*                                                                         *)
(* The jobs of the schedule module are modelled by the set of task ids     *)
(* they call _execute_task with: schedule_task adds a job without a tag,   *)
(* and schedule.clear(task_id) in cancel_task removes the jobs tagged      *)
(* task_id, of which there are none.                                       *)
(***************************************************************************)
\* a schedule_value: the seconds of an interval or the time of day
Seconds(n) == [seconds |-> n]
TimeOfDay(hhmm) == [at |-> hhmm]

\* the task dict schedule_task builds
Task(task_id, func, schedule_type, schedule_value) ==
    [id |-> task_id, function |-> func, schedule_type |-> schedule_type,
     schedule_value |-> schedule_value, status |-> "scheduled",
     last_run |-> None, error_count |-> 0]

\* the schedule types schedule_task knows
ScheduleTypes == {"interval", "daily", "weekly"}

\* SchedulerService.schedule_task that replaces a task already registered
schedule_task_replacing(task_dicts, job_ids, task_id, func, schedule_type, schedule_value, accepted) ==
    IF schedule_type \notin ScheduleTypes \/ ~accepted
    THEN [ret |-> FALSE, tasks |-> task_dicts, jobs |-> job_ids]
    ELSE [ret |-> TRUE,
          tasks |-> Put(task_dicts, task_id,
                        Task(task_id, func, schedule_type, schedule_value)),
          jobs |-> job_ids \cup {task_id}]

\* SchedulerService.schedule_task: the flag returned, the tasks and the jobs.
\* accepted is whether the schedule module takes the schedule_value
schedule_task(task_dicts, job_ids, task_id, func, schedule_type, schedule_value, accepted) ==
    IF task_id \in DOMAIN task_dicts
    THEN [ret |-> FALSE, tasks |-> task_dicts, jobs |-> job_ids]
    ELSE IF schedule_type \notin ScheduleTypes \/ ~accepted
    THEN [ret |-> FALSE, tasks |-> task_dicts, jobs |-> job_ids]
    ELSE [ret |-> TRUE,
          tasks |-> Put(task_dicts, task_id,
                        Task(task_id, func, schedule_type, schedule_value)),
          jobs |-> job_ids \cup {task_id}]

\* SchedulerService.cancel_task: the flag returned, the tasks and the running
\* tasks. The thread of a running task is forgotten, not stopped
cancel_task(task_dicts, running, task_id) ==
    IF task_id \notin DOMAIN task_dicts
    THEN [ret |-> FALSE, tasks |-> task_dicts, running_tasks |-> running]
    ELSE [ret |-> TRUE, tasks |-> Remove(task_dicts, {task_id}),
          running_tasks |-> Remove(running, {task_id})]

\* SchedulerService.get_task_status: the task without its function
get_task_status(task_dicts, task_id) ==
    IF task_id \notin DOMAIN task_dicts THEN None
    ELSE Remove(task_dicts[task_id], {"function"})

\* the tasks _schedule_default_tasks registers
DefaultTasks ==
    [task_id \in {"daily_backup", "metrics_cleanup", "health_check"} |->
        IF task_id = "daily_backup"
        THEN Task(task_id, "create_backup", "daily", TimeOfDay("00:00"))
        ELSE IF task_id = "metrics_cleanup"
        THEN Task(task_id, "cleanup_old_metrics", "interval", Seconds(3600))
        ELSE Task(task_id, "get_system_health", "interval", Seconds(300))]

\* the task ids, functions, schedule types and values of the calls
CalledTaskIds == {"test_task", "health_check"}
TaskIds == CalledTaskIds \cup DOMAIN DefaultTasks
TaskFunctions == {"test_task"}
Schedules ==
    {<<"interval", Seconds(5)>>, <<"daily", TimeOfDay("00:00")>>,
     <<"monthly", Seconds(5)>>}

\* the task ids whose jobs come due
DueTaskIds == {"test_task"}

\* history: the task id was never registered
NeverRegistered == [op |-> "none", before |-> "none"]

\* history: schedule_task registered the task; before is the last successful
\* operation on the task id before it
Registered(task, before) ==
    [op |-> "schedule_task", before |-> before,
     schedule_type |-> task.schedule_type, schedule_value |-> task.schedule_value]

\* history: cancel_task removed the task
Cancelled(before) == [op |-> "cancel_task", before |-> before]

(***************************************************************************)
(* State                                                                   *)
(***************************************************************************)
VARIABLES
    op,     \* the call the client has made, "idle" between calls
    args,   \* its arguments
    ret,    \* its result
    progress_files,  \* data/progress/{student_id}_progress.json, by student
    essays_dir,      \* database/essays/{essay_id}.json, by essay id
    baseline_files,  \* data/baselines/{student_id}_baseline.json, by student
    baseline_essays, \* history: the essays stored as baseline essays, in order
    student_baselines, \* table student_baselines of plaigiarized.db, by student
    progress_reports,  \* the progress reports analyze_progress has stored, in order
    saved_essays,      \* data/essays/{essay_id}.json of StorageService, by essay id
    writers,           \* the concurrent callers of the baseline stores, each
                       \* with its position in the call it is making
    baseline_text,     \* the characters of data/baselines/{student_id}_baseline.json
                       \* as concurrent writers leave them, by student
    clock,             \* time.time(), in seconds since the services were built
    caches,            \* CacheService.caches: cache name -> key -> item
    metadata,          \* CacheService.metadata: cache name -> metadata dict
    set_log,           \* history: for every cache name and key, the last
                       \* successful set and whether the entry was deleted or
                       \* cleared since
    tasks,             \* SchedulerService.tasks: task id -> task dict
    running_tasks,     \* SchedulerService.running_tasks: task id -> thread
    task_threads,      \* the threads started for _run_task, in order of creation
    jobs,              \* the task ids the jobs of the schedule module call
                       \* _execute_task with
    tick,              \* the task id the scheduler thread is inside
                       \* _execute_task for, <<>> outside
    registry_log,      \* history: for every task id, the last successful
                       \* schedule_task or cancel_task
    users,             \* the users collection of the database, by username
    login_attempts,    \* UserService.login_attempts: username -> set of times
    failed_calls,      \* history: for every username, the authenticate calls
                       \* that returned None since the last one that did not
    config,            \* ConfigService.config: the top-level dict
    dicts,             \* the nested dict objects that _default_config,
                       \* defaults and config refer to, by identity
    config_file,       \* data/config/config.json, None when it is missing
    monitoring,        \* HealthService.monitoring
    monitor_thread,    \* HealthService.monitor_thread: None or the last thread
    monitors,          \* the threads started on _monitor_health, in order
    health_history,    \* HealthService.health_history
    sessions,          \* RealTimeCollaboration.sessions
    participants,      \* RealTimeCollaboration.participants: the session of each
    changes_queue,     \* RealTimeCollaboration.changes_queue
    processor,         \* the task of _process_changes: where it stands
    change_log         \* history: for every session, the timestamps of the
                       \* changes queued and of those merged since it was created

\* the files on disk
files == <<progress_files, essays_dir, baseline_files, baseline_essays>>

\* the tables of plaigiarized.db and the files of StorageService
tables == <<student_baselines, progress_reports, saved_essays>>

\* the state of the concurrent baseline stores
race == <<writers, baseline_text>>

\* CacheService
cache_vars == <<caches, metadata, set_log>>

\* SchedulerService
scheduler_vars == <<tasks, running_tasks, task_threads, jobs, tick, registry_log>>

\* UserService
user_vars == <<users, login_attempts, failed_calls>>

\* ConfigService
config_vars == <<config, dicts, config_file>>

\* HealthService
health_vars == <<monitoring, monitor_thread, monitors, health_history>>

\* RealTimeCollaboration
collaboration_vars == <<sessions, participants, changes_queue, processor, change_log>>

\* the services that keep their state in memory, and the clock
services ==
    <<clock, cache_vars, scheduler_vars, user_vars, config_vars, health_vars,
      collaboration_vars>>

\* the stores and services other than RealTimeCollaboration
outside_collaboration ==
    <<op, args, ret, files, tables, race, clock, cache_vars, scheduler_vars, user_vars,
      config_vars, health_vars>>

\* the stores and services other than HealthService
outside_health ==
    <<files, tables, race, clock, cache_vars, scheduler_vars, user_vars, config_vars,
      collaboration_vars>>

\* the stores and services other than ConfigService
outside_config ==
    <<files, tables, race, clock, cache_vars, scheduler_vars, user_vars, health_vars,
      collaboration_vars>>

\* the stores and services other than CacheService
outside_cache ==
    <<files, tables, race, scheduler_vars, user_vars, config_vars, health_vars,
      collaboration_vars>>

\* the stores and services other than SchedulerService
outside_scheduler ==
    <<files, tables, race, clock, cache_vars, user_vars, config_vars, health_vars,
      collaboration_vars>>

\* the stores and services other than UserService
outside_user ==
    <<files, tables, race, cache_vars, scheduler_vars, config_vars, health_vars,
      collaboration_vars>>

vars == <<op, args, ret, progress_files, essays_dir, baseline_files, baseline_essays,
          tables, race, services>>

\* the files and tables
stores == <<files, tables, race, services>>

Init ==
    /\ op = "idle"
    /\ args = <<>>
    /\ ret = <<>>
    /\ progress_files = EmptyDict
    /\ essays_dir = EmptyDict
    /\ baseline_files = EmptyDict
    /\ baseline_essays = <<>>
    /\ student_baselines = EmptyDict
    /\ progress_reports = <<>>
    /\ saved_essays = EmptyDict
    /\ writers = [w \in Writers |-> IdleWriter]
    /\ baseline_text = EmptyDict
    /\ clock = 0
    /\ caches = EmptyDict
    /\ metadata = EmptyDict
    /\ set_log = [entry \in CacheNames \X CacheKeys |-> NeverSet]
    /\ tasks = DefaultTasks
    /\ running_tasks = EmptyDict
    /\ task_threads = <<>>
    /\ jobs = DOMAIN DefaultTasks
    /\ tick = <<>>
    /\ registry_log =
          [task_id \in TaskIds |->
              IF task_id \in DOMAIN DefaultTasks
              THEN Registered(DefaultTasks[task_id], "none")
              ELSE NeverRegistered]
    /\ users = EmptyDict
    /\ login_attempts = EmptyDict
    /\ failed_calls = [username \in AuthUsernames |-> 0]
    /\ config = defaults
    /\ dicts = BuiltDicts
    /\ config_file = Dumped(defaults, BuiltDicts)
    /\ monitoring = FALSE
    /\ monitor_thread = None
    /\ monitors = <<>>
    /\ health_history = <<>>
    /\ sessions = EmptyDict
    /\ participants = EmptyDict
    /\ changes_queue = EmptyDict
    /\ processor = [pc |-> "not started"]
    /\ change_log = [session_id \in SessionIds |-> NothingQueued]

\* DetectionService.compare_essays
CompareEssays ==
    /\ op = "idle"
    /\ \E baseline \in DetectionEssays, submitted \in DetectionEssays,
          similarity \in SimilarityOutcomes :
        /\ op' = "compare_essays"
        /\ args' = [baseline |-> baseline, submitted |-> submitted]
        /\ ret' = compare_essays(baseline, submitted, similarity)
        /\ UNCHANGED stores

\* DetectionService._calculate_improvements
CalculateImprovements ==
    /\ op = "idle"
    /\ \E baseline \in StyleDicts, submitted \in StyleDicts, time_span \in TimeSpans :
        /\ op' = "_calculate_improvements"
        /\ args' = [baseline |-> baseline, submitted |-> submitted,
                    time_span |-> time_span]
        /\ ret' = _calculate_improvements(baseline, submitted, time_span)
        /\ UNCHANGED stores

\* DetectionService._evaluate_improvement_realism
EvaluateImprovementRealism ==
    /\ op = "idle"
    /\ \E improvements \in ImprovementMaps, time_span \in TimeSpans :
        /\ op' = "_evaluate_improvement_realism"
        /\ args' = [improvements |-> improvements, time_span |-> time_span]
        /\ ret' = _evaluate_improvement_realism(improvements, time_span)
        /\ UNCHANGED stores

\* the client takes the result and is ready for its next call
Return ==
    /\ op \notin {"idle", "stop_monitoring.join"}
    /\ op' = "idle"
    /\ args' = <<>>
    /\ ret' = <<>>
    /\ UNCHANGED stores

\* ProgressService.track_student_progress; disk_ok is whether the write of
\* _save_progress_data succeeds (its failure is caught and printed)
TrackStudentProgress ==
    /\ op = "idle"
    /\ \E essays \in DistinctEssayLists, disk_ok \in BOOLEAN :
        /\ op' = "track_student_progress"
        /\ args' = [student_id |-> "student_1", essays |-> essays]
        /\ ret' = track_student_progress("student_1", essays)
        /\ progress_files' =
              IF ProgressOf(essays).exc = "none" /\ disk_ok
              THEN Put(progress_files, "student_1", ProgressOf(essays).val)
              ELSE progress_files
        /\ UNCHANGED <<essays_dir, baseline_files, baseline_essays, tables, race, services>>

\* StudentProgressService._calculate_progress_metrics
CalculateProgressMetrics ==
    /\ op = "idle"
    /\ \E baseline \in AnalysisDicts, new_analysis \in AnalysisDicts :
        /\ op' = "_calculate_progress_metrics"
        /\ args' = [baseline |-> baseline, new_analysis |-> new_analysis]
        /\ ret' = _calculate_progress_metrics(baseline, new_analysis)
        /\ UNCHANGED stores

\* ClassProgressService._calculate_improvement
ClassCalculateImprovement ==
    /\ op = "idle"
    /\ \E baseline \in AnalysisDicts, current \in AnalysisDicts :
        /\ op' = "_calculate_improvement"
        /\ args' = [baseline |-> baseline, current |-> current]
        /\ ret' = _calculate_improvement(baseline, current)
        /\ UNCHANGED stores

\* StudentProgressService._detect_anomalies
DetectAnomalies ==
    /\ op = "idle"
    /\ \E baseline \in AnalysisDicts, new_analysis \in AnalysisDicts,
          previous_essays \in ListsOver(PreviousEssays, MaxPrevious) :
        /\ op' = "_detect_anomalies"
        /\ args' = [baseline |-> baseline, previous_essays |-> previous_essays,
                    new_analysis |-> new_analysis]
        /\ ret' = _detect_anomalies(baseline, previous_essays, new_analysis)
        /\ UNCHANGED stores

\* DatabaseService.insert_essay; disk_ok is whether the write succeeds
InsertEssay ==
    /\ op = "idle"
    /\ \E essay \in InsertableEssays, disk_ok \in BOOLEAN :
        /\ op' = "insert_essay"
        /\ args' = [essay |-> essay]
        /\ ret' = disk_ok
        /\ essays_dir' = IF disk_ok THEN Put(essays_dir, essay.id, essay)
                         ELSE essays_dir
        /\ UNCHANGED <<progress_files, baseline_files, baseline_essays, tables, race, services>>

\* StudentProgressService.set_student_baseline: every path ends in the except
\* branch, so nothing is stored
SetStudentBaseline ==
    /\ op = "idle"
    /\ \E essay_ids \in ListsOver(EssayIds, MaxIds) :
        /\ op' = "set_student_baseline"
        /\ args' = [student_id |-> "student_1", essay_ids |-> essay_ids]
        /\ ret' = set_student_baseline(essays_dir, "student_1", essay_ids)
        /\ UNCHANGED stores

\* BaselineService.store_baseline_essay; disk_ok is whether the write succeeds
StoreBaselineEssay ==
    /\ op = "idle"
    /\ \E essay \in EssayPool, disk_ok \in BOOLEAN :
        /\ Len(baseline_essays) < MaxStored
        /\ op' = "store_baseline_essay"
        /\ args' = [essay |-> essay]
        /\ ret' = disk_ok
        /\ baseline_files' =
              IF disk_ok
              THEN Put(baseline_files, essay.student_id, BaselineDump(essay))
              ELSE baseline_files
        /\ baseline_essays' =
              IF disk_ok THEN Append(baseline_essays, BaselineDump(essay))
              ELSE baseline_essays
        /\ UNCHANGED <<progress_files, essays_dir, tables, race, services>>

\* DatabaseService.update_student_baseline
UpdateStudentBaseline ==
    /\ op = "idle"
    /\ \E student_id \in StudentIds, baseline_data \in BaselineDatas,
          db_ok \in BOOLEAN :
        LET done == update_student_baseline(student_baselines, student_id,
                                            baseline_data, db_ok)
        IN  /\ op' = "update_student_baseline"
            /\ args' = [student_id |-> student_id, baseline_data |-> baseline_data]
            /\ ret' = done.ret
            /\ student_baselines' = done.table
            /\ UNCHANGED <<files, progress_reports, saved_essays, race, services>>

\* DocumentProcessingService.add_to_baseline
AddToBaseline ==
    /\ op = "idle"
    /\ \E student_id \in StudentIds, document \in Documents,
          now \in ClockReadings, db_ok \in BOOLEAN :
        LET done == add_to_baseline(student_baselines, student_id, document,
                                    now, db_ok)
        IN  /\ op' = "add_to_baseline"
            /\ args' = [student_id |-> student_id, document |-> document]
            /\ ret' = done.ret
            /\ student_baselines' = done.table
            /\ UNCHANGED <<files, progress_reports, saved_essays, race, services>>

\* StudentProgressService._analyze_trends
AnalyzeTrends ==
    /\ op = "idle"
    /\ \E previous_essays \in EssayHistories, new_analysis \in AnalysisDicts :
        /\ op' = "_analyze_trends"
        /\ args' = [previous_essays |-> previous_essays,
                    new_analysis |-> new_analysis]
        /\ ret' = _analyze_trends(previous_essays, new_analysis)
        /\ UNCHANGED stores

\* StudentProgressService.analyze_progress.  baseline and previous_essays
\* are what the lookups of the student's baseline and stored essays yield,
\* new_analysis the analysis of the new essay, now the clock reading; they
\* are recorded with the arguments
AnalyzeProgress ==
    /\ op = "idle"
    /\ \E new_essay_id \in EssayIds, now \in ClockReadings,
          baseline \in StoredBaselines, previous_essays \in EssayHistories,
          new_analysis \in NewAnalyses :
        LET progress == analyze_progress(essays_dir, "student_1", new_essay_id,
                                         now, baseline, previous_essays,
                                         new_analysis)
        IN  /\ op' = "analyze_progress"
            /\ args' = [student_id |-> "student_1", new_essay_id |-> new_essay_id,
                        baseline |-> baseline,
                        previous_essays |-> previous_essays]
            /\ ret' = progress
            /\ progress_reports' = IF progress = None THEN progress_reports
                                   ELSE Append(progress_reports, progress)
            /\ UNCHANGED <<files, student_baselines, saved_essays, race, services>>

\* ClassProgressService._calculate_class_metrics
CalculateClassMetrics ==
    /\ op = "idle"
    /\ \E student_progress \in ClassProgresses :
        /\ op' = "_calculate_class_metrics"
        /\ args' = [student_progress |-> student_progress]
        /\ ret' = _calculate_class_metrics(student_progress)
        /\ UNCHANGED stores

\* ClassProgressService.analyze_class_progress; the analysis is never
\* stored (store_class_analysis is not a method of DatabaseService)
AnalyzeClassProgress ==
    /\ op = "idle"
    /\ \E now \in ClockReadings, class_data \in ClassDatas,
          students \in ClassProgresses :
        /\ op' = "analyze_class_progress"
        /\ args' = [class_id |-> "class_1", class_data |-> class_data,
                    students |-> students]
        /\ ret' = analyze_class_progress("class_1", now, class_data, students)
        /\ UNCHANGED stores

\* AnalysisService.analyze_text
AnalyzeText ==
    /\ op = "idle"
    /\ \E text \in Texts, nltk_ok \in BOOLEAN :
        /\ op' = "analyze_text"
        /\ args' = [text |-> text]
        /\ ret' = analyze_text(text, nltk_ok)
        /\ UNCHANGED stores

\* AnalysisService._calculate_grade_level
CalculateGradeLevel ==
    /\ op = "idle"
    /\ \E content \in AdmittedTexts, nltk_ok \in BOOLEAN :
        /\ op' = "_calculate_grade_level"
        /\ args' = [content |-> content]
        /\ ret' = _calculate_grade_level(content, nltk_ok)
        /\ UNCHANGED stores

\* AnalysisService._calculate_readability
CalculateReadability ==
    /\ op = "idle"
    /\ \E content \in AdmittedTexts, nltk_ok \in BOOLEAN :
        /\ op' = "_calculate_readability"
        /\ args' = [content |-> content]
        /\ ret' = _calculate_readability(content, nltk_ok)
        /\ UNCHANGED stores

\* AnalysisService._analyze_readability
AnalyzeReadability ==
    /\ op = "idle"
    /\ \E text \in AdmittedTexts, nltk_ok \in BOOLEAN :
        /\ op' = "_analyze_readability"
        /\ args' = [text |-> text]
        /\ ret' = _analyze_readability(text, nltk_ok)
        /\ UNCHANGED stores

\* StorageService.analyze_essay_metrics; disk_ok is whether the write of
\* the essay file succeeds
AnalyzeEssayMetrics ==
    /\ op = "idle"
    /\ \E id \in StoredEssayIds, text \in Texts, disk_ok \in BOOLEAN :
        LET essay == [id |-> id, content |-> text]
            done == analyze_essay_metrics(essay, disk_ok)
        IN  /\ op' = "analyze_essay_metrics"
            /\ args' = [essay |-> essay]
            /\ ret' = done.ret
            /\ saved_essays' =
                  IF done.saved
                  THEN Put(saved_essays, id, [essay EXCEPT !.id = id] @@
                                             [metrics |-> done.ret])
                  ELSE saved_essays
            /\ UNCHANGED <<files, student_baselines, progress_reports, race, services>>

\* a writer enters BaselineService.store_baseline_essay: the metrics are
\* set on the essay
BeginStoreBaselineEssay(w) ==
    /\ writers[w].pc = "idle"
    /\ \E essay \in RacingEssays :
        writers' = [writers EXCEPT ![w] =
                       [pc |-> "open", call |-> "store_baseline_essay",
                        essay |-> BaselineDump(essay)]]
    /\ UNCHANGED <<op, args, ret, files, tables, baseline_text, services>>

\* open(path, "w"): the file is created or truncated; disk_ok is whether the
\* open succeeds
OpenBaselineFile(w) ==
    /\ writers[w].pc = "open"
    /\ \E disk_ok \in BOOLEAN :
        IF disk_ok
        THEN /\ baseline_text' = Put(baseline_text, writers[w].essay.student_id, <<>>)
             /\ writers' = [writers EXCEPT ![w].pc = "dump"]
        ELSE /\ writers' = [writers EXCEPT ![w] = [pc |-> "return", ret |-> FALSE]]
             /\ UNCHANGED baseline_text
    /\ UNCHANGED <<op, args, ret, files, tables, services>>

\* json.dump and the close of the file: the buffered characters are written
\* from the writer's offset 0
DumpBaselineFile(w) ==
    /\ writers[w].pc = "dump"
    /\ baseline_text' =
          Put(baseline_text, writers[w].essay.student_id,
              WriteAtStart(baseline_text[writers[w].essay.student_id],
                           FileText(writers[w].essay)))
    /\ writers' = [writers EXCEPT ![w] = [pc |-> "return", ret |-> TRUE]]
    /\ UNCHANGED <<op, args, ret, files, tables, services>>

\* a writer enters DatabaseService.update_student_baseline
BeginUpdateStudentBaseline(w) ==
    /\ writers[w].pc = "idle"
    /\ \E student_id \in StudentIds, baseline_data \in RacingBaselineDatas :
        writers' = [writers EXCEPT ![w] =
                       [pc |-> "select", call |-> "update_student_baseline",
                        student_id |-> student_id,
                        baseline_data |-> baseline_data]]
    /\ UNCHANGED <<op, args, ret, files, tables, baseline_text, services>>

\* SELECT id FROM student_baselines WHERE student_id = ?
SelectBaseline(w) ==
    /\ writers[w].pc = "select"
    /\ writers' = [writers EXCEPT ![w] =
                      [pc |-> "write", call |-> @.call,
                       student_id |-> @.student_id,
                       baseline_data |-> @.baseline_data,
                       existing |-> @.student_id \in DOMAIN student_baselines]]
    /\ UNCHANGED <<op, args, ret, files, tables, baseline_text, services>>

\* the UPDATE or the INSERT, and the commit at the end of the with block.
\* An INSERT of a row whose id another writer has inserted meanwhile violates
\* the primary key: the exception is caught and False returned
WriteBaselineRow(w) ==
    /\ writers[w].pc = "write"
    /\ LET student_id == writers[w].student_id
           duplicate == ~writers[w].existing /\ student_id \in DOMAIN student_baselines
           done == update_student_baseline(student_baselines, student_id,
                                           writers[w].baseline_data, ~duplicate)
       IN  /\ student_baselines' = done.table
           /\ writers' = [writers EXCEPT ![w] = [pc |-> "return", ret |-> done.ret]]
    /\ UNCHANGED <<op, args, ret, files, progress_reports, saved_essays,
                   baseline_text, services>>

\* the call of a writer returns
ReturnWriter(w) ==
    /\ writers[w].pc = "return"
    /\ writers' = [writers EXCEPT ![w] = IdleWriter]
    /\ UNCHANGED <<op, args, ret, files, tables, baseline_text, services>>

\* time passes between two calls
Sleep(seconds) ==
    /\ op = "idle"
    /\ Sleeps(clock + seconds) <= MaxSleeps
    /\ clock' = clock + seconds
    /\ UNCHANGED <<op, args, ret, files, tables, race, cache_vars, scheduler_vars,
                   user_vars, config_vars, health_vars, collaboration_vars>>

CacheSet ==
    /\ op = "idle"
    /\ \E cache_name \in CacheNames, key \in CacheKeys, value \in CacheValues,
          expire_in \in ExpireIns :
        LET done == cache_set(caches, metadata, cache_name, key, value, expire_in, clock)
        IN  /\ op' = "cache_set"
            /\ args' = [cache_name |-> cache_name, key |-> key, value |-> value,
                        expire_in |-> expire_in]
            /\ ret' = done.ret
            /\ caches' = done.caches
            /\ metadata' = done.metadata
            /\ set_log' = IF done.ret
                          THEN [set_log EXCEPT ![<<cache_name, key>>] =
                                   LastSet(value, clock, expire_in)]
                          ELSE set_log
    /\ UNCHANGED <<clock, outside_cache>>

CacheGet ==
    /\ op = "idle"
    /\ \E cache_name \in CacheNames, key \in CacheKeys :
        LET done == cache_get(caches, cache_name, key, clock)
        IN  /\ op' = "cache_get"
            /\ args' = [cache_name |-> cache_name, key |-> key]
            /\ ret' = done.ret
            /\ caches' = done.caches
    /\ UNCHANGED <<clock, metadata, set_log, outside_cache>>

CacheDelete ==
    /\ op = "idle"
    /\ \E cache_name \in CacheNames, key \in CacheKeys :
        LET done == cache_delete(caches, metadata, cache_name, key, clock)
        IN  /\ op' = "cache_delete"
            /\ args' = [cache_name |-> cache_name, key |-> key]
            /\ ret' = done.ret
            /\ caches' = done.caches
            /\ metadata' = done.metadata
            /\ set_log' = IF done.ret THEN MarkRemoved(set_log, cache_name, {key})
                          ELSE set_log
    /\ UNCHANGED <<clock, outside_cache>>

CacheClear ==
    /\ op = "idle"
    /\ \E cache_name \in CacheNames :
        LET done == cache_clear(caches, metadata, cache_name, clock)
        IN  /\ op' = "cache_clear"
            /\ args' = [cache_name |-> cache_name]
            /\ ret' = done.ret
            /\ caches' = done.caches
            /\ metadata' = done.metadata
            /\ set_log' = IF done.ret THEN MarkRemoved(set_log, cache_name, CacheKeys)
                          ELSE set_log
    /\ UNCHANGED <<clock, outside_cache>>

CacheClearPattern ==
    /\ op = "idle"
    /\ \E cache_name \in CacheNames, pattern \in CachePatterns :
        LET done == clear_pattern(caches, metadata, cache_name, pattern, clock)
        IN  /\ op' = "clear_pattern"
            /\ args' = [cache_name |-> cache_name, pattern |-> pattern]
            /\ ret' = done.ret
            /\ caches' = done.caches
            /\ metadata' = done.metadata
            /\ set_log' =
                  IF done.ret
                  THEN MarkRemoved(set_log, cache_name,
                                   {key \in CacheKeys : PatternMatches(pattern, key)})
                  ELSE set_log
    /\ UNCHANGED <<clock, outside_cache>>

\* a run of the cleanup thread, between two calls
CleanupExpired ==
    /\ op = "idle"
    /\ LET done == _cleanup_expired(caches, metadata, clock)
       IN  /\ caches' = done.caches
           /\ metadata' = done.metadata
    /\ UNCHANGED <<op, args, ret, clock, set_log, outside_cache>>

ScheduleTask ==
    /\ op = "idle"
    /\ \E task_id \in CalledTaskIds, func \in TaskFunctions, schedule \in Schedules,
          accepted \in BOOLEAN :
        LET schedule_type == schedule[1]
            schedule_value == schedule[2]
            done == schedule_task(tasks, jobs, task_id, func, schedule_type,
                                  schedule_value, accepted)
        IN  /\ op' = "schedule_task"
            /\ args' = [task_id |-> task_id, func |-> func,
                        schedule_type |-> schedule_type,
                        schedule_value |-> schedule_value, accepted |-> accepted]
            /\ ret' = done.ret
            /\ tasks' = done.tasks
            /\ jobs' = done.jobs
            /\ registry_log' =
                  IF done.ret
                  THEN [registry_log EXCEPT ![task_id] =
                           Registered(Task(task_id, func, schedule_type, schedule_value),
                                      registry_log[task_id].op)]
                  ELSE registry_log
    /\ UNCHANGED <<running_tasks, task_threads, tick, outside_scheduler>>

CancelTask ==
    /\ op = "idle"
    /\ \E task_id \in CalledTaskIds :
        LET done == cancel_task(tasks, running_tasks, task_id)
        IN  /\ op' = "cancel_task"
            /\ args' = [task_id |-> task_id]
            /\ ret' = done.ret
            /\ tasks' = done.tasks
            /\ running_tasks' = done.running_tasks
            /\ registry_log' =
                  IF done.ret
                  THEN [registry_log EXCEPT ![task_id] =
                           Cancelled(registry_log[task_id].op)]
                  ELSE registry_log
    /\ UNCHANGED <<task_threads, jobs, tick, outside_scheduler>>

GetTaskStatus ==
    /\ op = "idle"
    /\ \E task_id \in CalledTaskIds :
        /\ op' = "get_task_status"
        /\ args' = [task_id |-> task_id]
        /\ ret' = get_task_status(tasks, task_id)
    /\ UNCHANGED <<scheduler_vars, outside_scheduler>>

\* _execute_task, first block under task_lock: a job of the schedule module
\* fires for a task that is registered and not running. The steps of the
\* scheduler thread and of the task threads are taken between two calls of
\* the client: op records the last call, which has returned
ExecuteTaskMark ==
    /\ op = "idle"
    /\ tick = <<>>
    /\ Len(task_threads) < MaxThreads
    /\ \E task_id \in jobs \cap DueTaskIds :
        /\ task_id \in DOMAIN tasks
        /\ tasks[task_id].status # "running"
        /\ tasks' = [tasks EXCEPT ![task_id].status = "running",
                                  ![task_id].last_run = Some(clock)]
        /\ tick' = <<task_id>>
    /\ UNCHANGED <<op, args, ret, running_tasks, task_threads, jobs, registry_log,
                   outside_scheduler>>

\* _execute_task, second block under task_lock and thread.start(); when the
\* thread cannot be started the except branch marks the task
ExecuteTaskStart ==
    /\ op = "idle"
    /\ tick # <<>>
    /\ \E thread_ok \in BOOLEAN :
        LET task_id == tick[1] IN
        /\ running_tasks' = Put(running_tasks, task_id, Len(task_threads) + 1)
        /\ task_threads' =
              Append(task_threads,
                     [task_id |-> task_id,
                      pc |-> IF thread_ok THEN "started" ELSE "finished"])
        /\ tasks' = IF thread_ok \/ task_id \notin DOMAIN tasks THEN tasks
                    ELSE [tasks EXCEPT ![task_id].status = "error",
                                       ![task_id].error_count = @ + 1]
        /\ tick' = <<>>
    /\ UNCHANGED <<op, args, ret, jobs, registry_log, outside_scheduler>>

\* _run_task reads the task, without the lock, and calls its function; a
\* task cancelled meanwhile raises KeyError, handled as an error of the run
RunTaskCall(thread) ==
    /\ op = "idle"
    /\ task_threads[thread].pc = "started"
    /\ task_threads' =
          [task_threads EXCEPT ![thread].pc =
              IF task_threads[thread].task_id \in DOMAIN tasks
              THEN "running" ELSE "cleanup"]
    /\ UNCHANGED <<op, args, ret, tasks, running_tasks, jobs, tick, registry_log,
                   outside_scheduler>>

\* the function returns or raises, and _run_task records it under task_lock
RunTaskRecord(thread) ==
    /\ op = "idle"
    /\ task_threads[thread].pc = "running"
    /\ \E raised \in BOOLEAN :
        LET task_id == task_threads[thread].task_id IN
        tasks' = IF task_id \notin DOMAIN tasks THEN tasks
                 ELSE IF raised
                 THEN [tasks EXCEPT ![task_id].status = "error",
                                    ![task_id].error_count = @ + 1]
                 ELSE [tasks EXCEPT ![task_id].status = "completed",
                                    ![task_id].error_count = 0]
    /\ task_threads' = [task_threads EXCEPT ![thread].pc = "cleanup"]
    /\ UNCHANGED <<op, args, ret, running_tasks, jobs, tick, registry_log,
                   outside_scheduler>>

\* the finally block of _run_task
RunTaskCleanup(thread) ==
    /\ op = "idle"
    /\ task_threads[thread].pc = "cleanup"
    /\ running_tasks' = Remove(running_tasks, {task_threads[thread].task_id})
    /\ task_threads' = [task_threads EXCEPT ![thread].pc = "finished"]
    /\ UNCHANGED <<op, args, ret, tasks, jobs, tick, registry_log, outside_scheduler>>

RegisterUser ==
    /\ op = "idle"
    /\ \E username \in Usernames, password \in Passwords, email \in Emails :
        LET done == register_user(users, username, password, email, clock)
        IN  /\ op' = "register_user"
            /\ args' = [username |-> username, password |-> password, email |-> email]
            /\ ret' = done.ret
            /\ users' = done.users
    /\ UNCHANGED <<clock, login_attempts, failed_calls, outside_user>>

Authenticate ==
    /\ op = "idle"
    /\ \E username \in {u \in Usernames : u.text \in AuthUsernames}, password \in Passwords :
        LET done == authenticate(users, login_attempts, username, password, clock)
        IN  /\ op' = "authenticate"
            /\ args' = [username |-> username, password |-> password]
            /\ ret' = done.ret
            /\ login_attempts' = done.login_attempts
            /\ failed_calls' =
                  [failed_calls EXCEPT ![username.text] =
                      IF done.ret # None THEN 0
                      ELSE IF @ < max_login_attempts THEN @ + 1 ELSE @]
    /\ UNCHANGED <<clock, users, outside_user>>

\* a new ConfigService is built, as at the start of a process
NewConfigService ==
    /\ op = "idle"
    /\ \E disk_ok \in BOOLEAN :
        LET done == ConfigServiceInit(config_file, disk_ok)
        IN  /\ config' = done.config
            /\ dicts' = done.dicts
            /\ config_file' = done.file
    /\ UNCHANGED <<op, args, ret, outside_config>>

ConfigGet ==
    /\ op = "idle"
    /\ \E key \in ConfigKeys :
        /\ op' = "config_get"
        /\ args' = [key |-> key]
        /\ ret' = config_get(config, dicts, key, None)
    /\ UNCHANGED <<config_vars, outside_config>>

ConfigSet ==
    /\ op = "idle"
    /\ \E key \in SetKeys, value \in ConfigValues, disk_ok \in BOOLEAN :
        LET done == config_set(config, dicts, config_file, key, value, disk_ok)
        IN  /\ op' = "config_set"
            /\ args' = [key |-> key, value |-> value, disk_ok |-> disk_ok]
            /\ ret' = done.ret
            /\ config' = done.config
            /\ dicts' = done.dicts
            /\ config_file' = done.file
    /\ UNCHANGED outside_config

ConfigReset ==
    /\ op = "idle"
    /\ \E key \in ConfigKeys, disk_ok \in BOOLEAN :
        LET done == config_reset(config, dicts, config_file, key, disk_ok)
        IN  /\ op' = "config_reset"
            /\ args' = [key |-> key, disk_ok |-> disk_ok]
            /\ ret' = done.ret
            /\ config' = done.config
            /\ dicts' = done.dicts
            /\ config_file' = done.file
    /\ UNCHANGED outside_config

ConfigResetAll ==
    /\ op = "idle"
    /\ \E disk_ok \in BOOLEAN :
        LET done == reset_all(dicts, config_file, disk_ok)
        IN  /\ op' = "reset_all"
            /\ args' = [disk_ok |-> disk_ok]
            /\ ret' = done.ret
            /\ config' = done.config
            /\ dicts' = done.dicts
            /\ config_file' = done.file
    /\ UNCHANGED outside_config

StartMonitoring ==
    /\ op = "idle"
    /\ Len(monitors) < MaxMonitors
    /\ op' = "start_monitoring"
    /\ args' = <<>>
    /\ IF ~monitoring
       THEN /\ monitoring' = TRUE
            /\ monitors' = Append(monitors, Monitor("test", None))
            /\ monitor_thread' = [thread |-> Len(monitors) + 1]
            /\ ret' = TRUE
       ELSE /\ ret' = FALSE
            /\ UNCHANGED <<monitoring, monitors, monitor_thread>>
    /\ UNCHANGED <<health_history, outside_health>>

\* stop_monitoring up to the join
StopMonitoring ==
    /\ op = "idle"
    /\ args' = <<>>
    /\ IF monitoring
       THEN /\ monitoring' = FALSE
            /\ IF monitor_thread # None
               THEN op' = "stop_monitoring.join" /\ ret' = ret
               ELSE op' = "stop_monitoring" /\ ret' = TRUE
       ELSE /\ op' = "stop_monitoring"
            /\ ret' = FALSE
            /\ UNCHANGED monitoring
    /\ UNCHANGED <<monitor_thread, monitors, health_history, outside_health>>

\* the join of stop_monitoring returns
StopMonitoringJoined ==
    /\ op = "stop_monitoring.join"
    /\ JoinReturns(monitors[monitor_thread.thread])
    /\ op' = "stop_monitoring"
    /\ ret' = TRUE
    /\ UNCHANGED <<args, health_vars, outside_health>>

\* while self.monitoring
MonitorTest(thread) ==
    /\ op \in {"idle", "stop_monitoring.join"}
    /\ monitors[thread].pc = "test"
    /\ monitors' = [monitors EXCEPT ![thread].pc =
                        IF monitoring THEN "collect" ELSE "terminated"]
    /\ UNCHANGED <<op, args, ret, monitoring, monitor_thread, health_history,
                   outside_health>>

\* health_status = self.get_system_health()
MonitorCollect(thread) ==
    /\ op \in {"idle", "stop_monitoring.join"}
    /\ monitors[thread].pc = "collect"
    /\ \E raised \in BOOLEAN :
        monitors' = [monitors EXCEPT
                        ![thread] = Monitor("append", get_system_health(raised, clock))]
    /\ UNCHANGED <<op, args, ret, monitoring, monitor_thread, health_history,
                   outside_health>>

\* the append and the filter under history_lock; an exception of the filter
\* leads to threading.Event().wait(self.monitor_interval)
MonitorAppend(thread) ==
    /\ op \in {"idle", "stop_monitoring.join"}
    /\ monitors[thread].pc = "append"
    /\ Len(health_history) < MaxHealthEntries
    /\ LET done == AppendHealth(health_history, monitors[thread].health_status, clock)
       IN  /\ health_history' = done.health_history
           /\ monitors' = [monitors EXCEPT
                               ![thread] = Monitor(IF done.raised THEN "error_wait"
                                                   ELSE "sleep", None)]
    /\ UNCHANGED <<op, args, ret, monitoring, monitor_thread, outside_health>>

\* the waits of one second end, by the break on "not self.monitoring" or
\* after monitor_interval of them
MonitorSleep(thread) ==
    /\ op \in {"idle", "stop_monitoring.join"}
    /\ monitors[thread].pc = "sleep"
    /\ monitors' = [monitors EXCEPT ![thread].pc = "test"]
    /\ UNCHANGED <<op, args, ret, monitoring, monitor_thread, health_history,
                   outside_health>>

\* the wait of the except branch ends
MonitorErrorWait(thread) ==
    /\ op \in {"idle", "stop_monitoring.join"}
    /\ monitors[thread].pc = "error_wait"
    /\ monitors' = [monitors EXCEPT ![thread].pc = "test"]
    /\ UNCHANGED <<op, args, ret, monitoring, monitor_thread, health_history,
                   outside_health>>

\* the changes queued so far
QueuedSoFar == UNION {change_log[session_id].queued : session_id \in SessionIds}

\* _initialize_websockets is awaited: the task of _process_changes is created.
\* The constructor calls it without awaiting it, which starts nothing
InitializeWebsockets ==
    /\ processor.pc = "not started"
    /\ processor' = [pc |-> "waiting"]
    /\ UNCHANGED <<sessions, participants, changes_queue, change_log,
                   outside_collaboration>>

\* _handle_connection registers the participant of a new connection
RegisterParticipant ==
    /\ \E participant_id \in ParticipantIds \ DOMAIN participants,
          session_id \in SessionIds :
        LET done == _register_participant(sessions, participants, changes_queue,
                                          participant_id, session_id)
        IN  /\ sessions' = done.sessions
            /\ participants' = done.participants
            /\ changes_queue' = done.changes_queue
            /\ change_log' = IF done.created
                             THEN [change_log EXCEPT ![session_id] = NothingQueued]
                             ELSE change_log
    /\ UNCHANGED <<processor, outside_collaboration>>

\* _handle_connection unregisters the participant when the connection ends
UnregisterParticipant ==
    /\ \E participant_id \in DOMAIN participants :
        LET session_id == participants[participant_id]
            done == _unregister_participant(sessions, participants, changes_queue,
                                            participant_id, session_id)
        IN  /\ sessions' = done.sessions
            /\ participants' = done.participants
            /\ changes_queue' = done.changes_queue
            /\ change_log' = IF done.deleted
                             THEN [change_log EXCEPT ![session_id] = NothingQueued]
                             ELSE change_log
    /\ UNCHANGED <<processor, outside_collaboration>>

\* _handle_message of a connected participant calls _queue_change
QueueChange ==
    /\ Cardinality(QueuedSoFar) < MaxChanges
    /\ \E participant_id \in DOMAIN participants, key \in ChangeKeys :
        LET session_id == participants[participant_id]
            timestamp == Cardinality(QueuedSoFar) + 1
            change == Put(EmptyDict, key, timestamp)
        IN  /\ session_id \in DOMAIN changes_queue
            /\ changes_queue' =
                  [changes_queue EXCEPT
                      ![session_id] = Append(@, QueuedChange(participant_id, change,
                                                             timestamp))]
            /\ change_log' = [change_log EXCEPT ![session_id].queued = @ \cup {timestamp}]
    /\ UNCHANGED <<sessions, participants, processor, outside_collaboration>>

\* _process_changes reaches a session with queued changes: they are merged
\* into its state, and _broadcast_updates suspends in asyncio.gather
ProcessChanges ==
    /\ processor.pc = "waiting"
    /\ \E session_id \in DOMAIN changes_queue \cap DOMAIN sessions :
        LET changes == changes_queue[session_id] IN
        /\ changes # <<>>
        /\ sessions' = [sessions EXCEPT
                            ![session_id].state = Update(@, _merge_changes(changes))]
        /\ change_log' = [change_log EXCEPT
                              ![session_id].merged = @ \cup Timestamps(changes)]
        /\ processor' = [pc |-> "broadcasting", session_id |-> session_id]
    /\ UNCHANGED <<participants, changes_queue, outside_collaboration>>

\* the sends of _broadcast_updates are over: the queue of the session is set
\* to [], or a send has raised and the loop starts again after its sleep
BroadcastDone ==
    /\ processor.pc = "broadcasting"
    /\ \E sent \in BOOLEAN :
        changes_queue' = IF sent THEN Put(changes_queue, processor.session_id, <<>>)
                         ELSE changes_queue
    /\ processor' = [pc |-> "waiting"]
    /\ UNCHANGED <<sessions, participants, change_log, outside_collaboration>>

NextDetection ==
    \/ Return
    \/ CompareEssays
    \/ CalculateImprovements
    \/ EvaluateImprovementRealism

NextProgress ==
    \/ Return
    \/ TrackStudentProgress
    \/ CalculateProgressMetrics
    \/ ClassCalculateImprovement
    \/ DetectAnomalies

NextBaseline ==
    \/ Return
    \/ InsertEssay
    \/ SetStudentBaseline
    \/ StoreBaselineEssay

NextSamples ==
    \/ Return
    \/ UpdateStudentBaseline
    \/ AddToBaseline

NextStudent ==
    \/ Return
    \/ InsertEssay
    \/ AnalyzeTrends
    \/ AnalyzeProgress

NextClass ==
    \/ Return
    \/ CalculateClassMetrics
    \/ AnalyzeClassProgress

NextText ==
    \/ Return
    \/ AnalyzeText
    \/ CalculateGradeLevel
    \/ CalculateReadability
    \/ AnalyzeReadability
    \/ AnalyzeEssayMetrics

NextScoring ==
    \/ Return
    \/ CompareEssays
    \/ AnalyzeEssayMetrics

NextReports ==
    \/ Return
    \/ TrackStudentProgress
    \/ AnalyzeProgress

NextWriters ==
    \E w \in Writers :
        \/ BeginStoreBaselineEssay(w)
        \/ OpenBaselineFile(w)
        \/ DumpBaselineFile(w)
        \/ BeginUpdateStudentBaseline(w)
        \/ SelectBaseline(w)
        \/ WriteBaselineRow(w)
        \/ ReturnWriter(w)

NextCache ==
    \/ Return
    \/ \E seconds \in CacheSleeps : Sleep(seconds)
    \/ CacheSet
    \/ CacheGet
    \/ CacheDelete
    \/ CacheClear
    \/ CacheClearPattern
    \/ CleanupExpired

\* CacheService
SpecCache == Init /\ [][NextCache]_vars

NextScheduler ==
    \/ Return
    \/ ScheduleTask
    \/ CancelTask
    \/ GetTaskStatus
    \/ ExecuteTaskMark
    \/ ExecuteTaskStart
    \/ \E thread \in 1 .. Len(task_threads) :
          \/ RunTaskCall(thread)
          \/ RunTaskRecord(thread)
          \/ RunTaskCleanup(thread)

\* SchedulerService
SpecScheduler == Init /\ [][NextScheduler]_vars

NextUser ==
    \/ Return
    \/ \E seconds \in UserSleeps : Sleep(seconds)
    \/ RegisterUser
    \/ Authenticate

\* UserService
SpecUser == Init /\ [][NextUser]_vars

NextConfig ==
    \/ Return
    \/ NewConfigService
    \/ ConfigGet
    \/ ConfigSet
    \/ ConfigReset
    \/ ConfigResetAll

\* ConfigService
SpecConfig == Init /\ [][NextConfig]_vars

NextHealth ==
    \/ Return
    \/ StartMonitoring
    \/ StopMonitoring
    \/ StopMonitoringJoined
    \/ \E thread \in DOMAIN monitors : MonitorTest(thread)
    \/ \E thread \in DOMAIN monitors : MonitorCollect(thread)
    \/ \E thread \in DOMAIN monitors : MonitorAppend(thread)
    \/ \E thread \in DOMAIN monitors : MonitorSleep(thread)
    \/ \E thread \in DOMAIN monitors : MonitorErrorWait(thread)

\* HealthService
SpecHealth == Init /\ [][NextHealth]_vars

NextCollaboration ==
    \/ InitializeWebsockets
    \/ RegisterParticipant
    \/ UnregisterParticipant
    \/ QueueChange
    \/ ProcessChanges
    \/ BroadcastDone

\* RealTimeCollaboration
SpecCollaboration == Init /\ [][NextCollaboration]_vars

\* DetectionService
SpecDetection == Init /\ [][NextDetection]_vars

\* ProgressService, and the comparisons of StudentProgressService and
\* ClassProgressService
SpecProgress == Init /\ [][NextProgress]_vars

\* baseline construction: StudentProgressService.set_student_baseline and
\* BaselineService
SpecBaseline == Init /\ [][NextBaseline]_vars

\* the analysis of a new essay against the student's baseline and history:
\* StudentProgressService.analyze_progress and _analyze_trends
SpecStudent == Init /\ [][NextStudent]_vars

\* the analysis of a class: ClassProgressService.analyze_class_progress and
\* _calculate_class_metrics
SpecClass == Init /\ [][NextClass]_vars

\* feature extraction from essay text: AnalysisService and StorageService
SpecText == Init /\ [][NextText]_vars

\* repeated runs of the two scoring entry points, DetectionService.compare_essays
\* and StorageService.analyze_essay_metrics, over a changing essay store
SpecScoring == Init /\ [][NextScoring]_vars

\* the progress reports: ProgressService.track_student_progress and
\* StudentProgressService.analyze_progress
SpecReports == Init /\ [][NextReports]_vars

\* concurrent callers of BaselineService.store_baseline_essay and
\* DatabaseService.update_student_baseline
SpecWriters == Init /\ [][NextWriters]_vars

\* the baseline samples: DatabaseService.update_student_baseline and
\* DocumentProcessingService.add_to_baseline
SpecSamples == Init /\ [][NextSamples]_vars

(***************************************************************************)
(* Properties: RealismClassifier and yearly rates (DetectionService)       *)
(***************************************************************************)
Zero == RInt(0)
One == RInt(1)

\* the metric an improvements key or a threshold key is about
MetricOf(key) == key[1]

\* the entry of a threshold band that belongs to a metric
BandValue(band, metric) ==
    improvement_thresholds[band][CHOOSE k \in ThresholdKeys : MetricOf(k) = metric]

\* the contribution the classifier is specified to give a metric's rate
SpecContribution(metric, rate) ==
    IF RGt(rate, BandValue("suspicious", metric)) THEN One
    ELSE IF RGt(rate, BandValue("high", metric)) THEN Dec(5)
    ELSE Zero

\* the mean of the specified contributions over a non-empty improvements map
SpecScore(improvements) ==
    LET keys == DOMAIN improvements
        full == {k \in keys : SpecContribution(MetricOf(k), improvements[k]) = One}
        half == {k \in keys : SpecContribution(MetricOf(k), improvements[k]) = Dec(5)}
    IN  Rat(2 * Cardinality(full) + Cardinality(half), 2 * Cardinality(keys))

\* C1: for every non-empty map of per-metric yearly rates,
\* _evaluate_improvement_realism returns the mean of the per-metric
\* contributions (1.0 above the suspicious threshold, 0.5 above the
\* high-achiever maximum, else 0.0); grade_level +0.5/yr with vocabulary
\* +10%/yr yields 0.0.
C1_ScoreIsMeanOfContributions ==
    (op = "_evaluate_improvement_realism" /\ DOMAIN args.improvements # {})
        => ret = Ok(SpecScore(args.improvements))

\* the yearly rate the trend analysis is specified to report for a metric
SpecYearlyRate(metric, baseline_value, current_value, elapsed_years) ==
    LET absolute_change == RSub(current_value, baseline_value)
        relative_change == IF RIsZero(baseline_value) THEN Zero
                           ELSE RDiv(absolute_change, baseline_value)
    IN  IF metric = "grade_level"
        THEN RDiv(absolute_change, elapsed_years)
        ELSE RDiv(RMul(relative_change, RInt(100)), elapsed_years)

\* C2: with elapsed_years > 0, every yearly rate _calculate_improvements
\* reports equals relative_change * 100 / elapsed_years, and for grade_level
\* absolute_change / elapsed_years.
C2_YearlyRate ==
    (op = "_calculate_improvements" /\ RGt(args.time_span, Zero) /\ ret.exc = "none")
        => \A k \in DOMAIN ret.val :
              ret.val[k] = SpecYearlyRate(MetricOf(k), args.baseline[MetricOf(k)],
                                          args.submitted[MetricOf(k)], args.time_span)

\* C4: on an empty improvements map the classifier returns the score 0 and
\* does not raise.
C4_NoMetricsScoresZero ==
    (op = "_evaluate_improvement_realism" /\ DOMAIN args.improvements = {})
        => ret = Ok(Zero)

\* a score lies in [0, 1]
InUnitInterval(x) == ~RLt(x, Zero) /\ ~RGt(x, One)

\* C5: every result of compare_essays, also when an internal step failed,
\* carries an ai_probability and a similarity_score that lie in [0, 1].
C5_ScoresInUnitInterval ==
    op = "compare_essays"
        => /\ {"ai_probability", "similarity_score"} \subseteq DOMAIN ret
           /\ InUnitInterval(ret.ai_probability)
           /\ InUnitInterval(ret.similarity_score)

\* a comparison of two different essays whose internal step failed
C5_Witness ==
    /\ op = "compare_essays"
    /\ args.baseline.id = "base"
    /\ args.submitted.id = "jump"
    /\ ret = CompareFallback

\* the rates compare_essays derives for a pair of essays
PairImprovements(baseline, submitted) ==
    _calculate_improvements(_extract_style_metrics(baseline.content),
                            _extract_style_metrics(submitted.content),
                            Rat(submitted.created_at - baseline.created_at, 365))

\* C7: the suspicion score compare_essays returns is the mean over exactly
\* the metrics for which a yearly rate was computed; a metric without a rate
\* counts neither in the numerator nor in the denominator.
C7_MeanOverComputedMetrics ==
    (op = "compare_essays"
        /\ PairImprovements(args.baseline, args.submitted).exc = "none")
        => ret.ai_probability =
              SpecScore(PairImprovements(args.baseline, args.submitted).val)

\* C8: when both essays have identical metric values and the elapsed time is
\* positive, every yearly rate is 0 and the suspicion score is 0.
C8_ZeroChange ==
    (op = "compare_essays"
        /\ _extract_style_metrics(args.baseline.content)
              = _extract_style_metrics(args.submitted.content)
        /\ args.submitted.created_at > args.baseline.created_at)
        => /\ \A k \in DOMAIN PairImprovements(args.baseline, args.submitted).val :
                 PairImprovements(args.baseline, args.submitted).val[k] = Zero
           /\ ret.ai_probability = Zero

(***************************************************************************)
(* Properties: improvement records and flags (ProgressService, student     *)
(* and class services)                                                     *)
(***************************************************************************)
\* no metric of the essay is zero
NoZeroMetric(essay) == \A m \in DOMAIN essay.metrics : ~RIsZero(essay.metrics[m])

\* the first and the last essay of the list in date order
FirstEssay(essays) == SortedByCreatedAt(essays)[1]
LastEssay(essays) == SortedByCreatedAt(essays)[Len(essays)]

\* every two consecutive essays in date order are at least a day apart
PositiveSpans(essays) ==
    \A i \in 1 .. (Len(essays) - 1) :
        SortedByCreatedAt(essays)[i].created_at
            < SortedByCreatedAt(essays)[i + 1].created_at

\* C3: when the compared essays are zero days apart, the time span is
\* rejected without dividing by it and the analysis call does not fail as a
\* whole: track_student_progress still returns a report.
C3_DegenerateTimeSpanNotFatal ==
    (op = "track_student_progress"
        /\ Len(args.essays) >= 2
        /\ \A i \in DOMAIN args.essays : NoZeroMetric(args.essays[i])
        /\ FirstEssay(args.essays).created_at = LastEssay(args.essays).created_at)
        => DOMAIN ret # {}

\* the classifier metric an overall_improvement entry is the rate of
RateMetric(key) ==
    CASE key = "writing_level" -> "grade_level"
      [] key = "vocabulary" -> "vocab"
      [] key = "complexity" -> "complexity"
      [] key = "style" -> "style"

\* C6: a metric is flagged exactly when its suspicion contribution is greater
\* than 0; in particular a grade_level rate of 7.0 levels/yr is flagged.
C6_FlagsFollowContributions ==
    (op = "track_student_progress" /\ DOMAIN ret # {})
        => \A key \in DOMAIN ret.overall_improvement :
              (SpecContribution(RateMetric(key), ret.overall_improvement[key]) # Zero)
              <=> (\E i \in DOMAIN ret.flags : ret.flags[i].metric = key)

\* relative_change as specified: 0 on a zero baseline value
SpecRelativeChange(baseline_value, current_value) ==
    IF RIsZero(baseline_value) THEN Zero
    ELSE RDiv(RSub(current_value, baseline_value), baseline_value)

\* C9: for every metric present in both dicts relative_change is
\* (current - baseline) / baseline, and 0 when the baseline value is 0; a
\* zero baseline value neither raises nor drops the report.
C9_RelativeChange ==
    /\ op = "_calculate_progress_metrics"
          => \A m \in DOMAIN args.baseline \cap DOMAIN args.new_analysis :
                /\ m \in DOMAIN ret
                /\ ret[m].relative_change
                      = SpecRelativeChange(args.baseline[m], args.new_analysis[m])
    /\ op = "_calculate_improvement"
          => \A m \in DOMAIN args.baseline \cap DOMAIN args.current :
                /\ m \in DOMAIN ret
                /\ ret[m] = SpecRelativeChange(args.baseline[m], args.current[m])
    /\ (op = "track_student_progress" /\ Len(args.essays) >= 2
            /\ PositiveSpans(args.essays))
          => /\ DOMAIN ret # {}
             /\ ret.overall_improvement.vocabulary
                   = RDiv(RMul(SpecRelativeChange(
                                   FirstEssay(args.essays).metrics["vocabulary_size"],
                                   LastEssay(args.essays).metrics["vocabulary_size"]),
                               RInt(100)),
                          YearsBetween(FirstEssay(args.essays), LastEssay(args.essays)))

(***************************************************************************)
(* Properties: baseline construction                                       *)
(***************************************************************************)
\* the element-wise arithmetic mean of a non-empty list of metric vectors
ElementwiseMean(vectors) ==
    [m \in DOMAIN vectors[1] |-> Mean([i \in DOMAIN vectors |-> vectors[i][m]])]

\* C10: a baseline is built from the student's own-work essays and its
\* metrics are the element-wise mean of the essays' metric vectors, in
\* whatever order the essays are given.
C10_BaselineIsMean ==
    /\ (op = "set_student_baseline"
            /\ args.essay_ids # <<>>
            /\ \A i \in DOMAIN args.essay_ids : args.essay_ids[i] \in DOMAIN essays_dir)
          => ret = TRUE
    /\ (op = "store_baseline_essay" /\ ret = TRUE)
          => baseline_files[args.essay.student_id].metrics
                = ElementwiseMean([i \in DOMAIN baseline_essays |->
                                      baseline_essays[i].metrics])

\* C11: after any sequence of baseline builds and updates, the baseline of
\* every student records at most max_samples (10) source essays.
C11_SamplesWithinCap ==
    \A student_id \in DOMAIN student_baselines :
        Len(student_baselines[student_id].samples) <= max_samples

\* the call ended by raising the exception to its caller instead of returning
\* its success flag
RaisedToCaller(result, exception) ==
    result \notin BOOLEAN /\ result.exc = exception

\* C12: building a baseline from an empty essay list fails with a
\* ValidationError, a result the caller can tell from the result of any other
\* failure (here: an essay that is not found).
C12_EmptyListIsValidationError ==
    (op = "set_student_baseline" /\ args.essay_ids = <<>>)
        => /\ RaisedToCaller(ret, "ValidationError")
           /\ ret # set_student_baseline(essays_dir, args.student_id, <<"missing">>)

(***************************************************************************)
(* Properties: analysis of a new essay (StudentProgressService)            *)
(***************************************************************************)
\* the trend output that marks too little data
InsufficientData == [sufficient_data |-> FALSE]

\* C13: with fewer than 3 historical essays the trend output is the
\* insufficient-data marker, and the same analyze_progress call on a student
\* with a baseline and a stored new essay still returns the
\* baseline-versus-current metrics and the anomaly result.
C13_ShortHistoryStillAnalysed ==
    /\ (op = "_analyze_trends"
            /\ Len(args.previous_essays) < min_essays_for_trend)
          => ret = InsufficientData
    /\ (op = "analyze_progress"
            /\ Len(args.previous_essays) < min_essays_for_trend
            /\ args.baseline # None
            /\ args.new_essay_id \in DOMAIN essays_dir)
          => /\ ret # None
             /\ ret.trends = InsufficientData
             /\ {"metrics", "anomalies"} \subseteq DOMAIN ret

(***************************************************************************)
(* Properties: analysis of a class (ClassProgressService)                  *)
(***************************************************************************)
\* the descriptive statistics of one metric, and nothing else
DescriptiveStatistics == {"mean", "median", "std_squared", "percentiles"}

\* the metrics some student of the list has a current value for
CohortMetrics(student_progress) ==
    {m \in {SettingsMetrics[i] : i \in DOMAIN SettingsMetrics} :
        \E i \in DOMAIN student_progress : m \in DOMAIN student_progress[i].current}

\* C14: for a class of fewer than min_students (5) students, the class
\* analysis returns an insufficient-cohort marker and still returns, for
\* every metric of the cohort, its descriptive statistics
\* (mean/median/std/percentiles) without outlier flags.
C14_SmallCohortStillAggregated ==
    /\ (op = "_calculate_class_metrics"
            /\ Len(args.student_progress) < min_students)
          => /\ DOMAIN ret = CohortMetrics(args.student_progress)
             /\ \A m \in DOMAIN ret : DOMAIN ret[m] = DescriptiveStatistics
    /\ (op = "analyze_class_progress"
            /\ args.class_data # None
            /\ Len(args.students) < min_students)
          => /\ ret # None
             /\ "error" \in DOMAIN ret
             /\ "metrics" \in DOMAIN ret
             /\ DOMAIN ret.metrics = CohortMetrics(args.students)

(***************************************************************************)
(* Properties: feature extraction (AnalysisService, StorageService)        *)
(***************************************************************************)
\* the length bounds of feature extraction: at least 100 characters and at
\* most 10,000 words
WithinLengthBounds(text) ==
    Chars(text) >= min_words /\ WordTotal(text) <= max_words

\* C15: analyze_text on content below the minimum length (100 characters) or
\* above the maximum (10,000 words) raises a ValidationError to its caller
\* instead of returning a result, and content within the bounds is never
\* rejected.
C15_LengthValidation ==
    op = "analyze_text"
        => IF WithinLengthBounds(args.text)
           THEN "error" \notin DOMAIN ret
           ELSE "exc" \in DOMAIN ret /\ ret.exc = "ValidationError"

\* a text of one word that no sentence terminator closes
OneWordNoSentence(text) == WordTotal(text) = 1 /\ ~text.stop

\* a grade level lies in [0, 12]
InGradeRange(x) == ~RLt(x, Zero) /\ ~RGt(x, RInt(12))

\* C16: metric extraction on a text of one word and no sentence returns a
\* metric vector, not an empty or default result, whose average sentence
\* length is 0 and whose grade_level lies in [0, 12]; no division by zero
\* occurs.
C16_GuardedDivision ==
    /\ (op = "analyze_essay_metrics" /\ OneWordNoSentence(args.essay.content))
          => /\ DOMAIN ret # {}
             /\ ret.avg_words_per_sentence = Zero
             /\ "grade_level" \in DOMAIN ret
             /\ InGradeRange(ret.grade_level)
    /\ (op = "_calculate_grade_level" /\ OneWordNoSentence(args.content))
          => InGradeRange(ret)

\* C17: every grade_level a readability routine produces lies in [0, 12].
C17_GradeLevelClamped ==
    /\ op = "_calculate_grade_level" => InGradeRange(ret)
    /\ (op = "_calculate_readability" /\ "grade_level" \in DOMAIN ret)
          => InGradeRange(ret.grade_level)
    /\ op = "_analyze_readability" => InGradeRange(ret.grade_level)

StoredReports(progress_file, reports, student_id) ==
    (IF student_id \in DOMAIN progress_file THEN {progress_file[student_id]} ELSE {})
    \cup {reports[i] : i \in {j \in DOMAIN reports :
                                  reports[j].student_id = student_id}}

\* C19: the progress reports of a student form an append-only history: no
\* step modifies, replaces or removes a report stored earlier.
C19_AppendOnlyReports ==
    [][\A student_id \in StudentIds :
          StoredReports(progress_files, progress_reports, student_id)
              \subseteq StoredReports(progress_files', progress_reports', student_id)]_vars

(***************************************************************************)
(* Properties: concurrent baseline stores                                  *)
(***************************************************************************)
\* the student whose baseline the writer is storing
WriterStudent(writer) ==
    IF writer.call = "store_baseline_essay" THEN writer.essay.student_id
    ELSE writer.student_id

\* the writers inside a baseline store for the student
WritersInside(student_id) ==
    {w \in Writers : /\ writers[w].pc \notin {"idle", "return"}
                     /\ WriterStudent(writers[w]) = student_id}

\* the stored baseline file of the student is what one complete store writes
CompleteBaselineFile(student_id) ==
    \E essay \in RacingEssays :
        /\ essay.student_id = student_id
        /\ baseline_text[student_id] = FileText(essay)

\* C20: at most one writer is inside a baseline store for a student at any
\* time, and whenever no writer is inside, the stored baseline of the student
\* is the result of one complete store.
C20_SerializedPerStudent ==
    \A student_id \in StudentIds :
        /\ Cardinality(WritersInside(student_id)) <= 1
        /\ (WritersInside(student_id) = {} /\ student_id \in DOMAIN baseline_text)
              => CompleteBaselineFile(student_id)

(***************************************************************************)
(* Properties: CacheService                                                *)
(***************************************************************************)
\* the entry of the last get
ReadEntry == set_log[<<args.cache_name, args.key>>]

\* the entry was set and not deleted or cleared since
Live(entry) == entry.written /\ ~entry.removed

\* the entry has outlived the lifetime the cache gave it: the lifetime of the
\* set, the default lifetime for a set without one
OutlivedLifetime(entry) ==
    clock - entry.at > ExpireInOrDefault(entry.expire_in)

\* C21: read-your-writes. A get returns the value of the most recent
\* successful set of the entry if the entry was not deleted, cleared or
\* expired since, and None otherwise; after a successful clear every key of
\* the cache reads as None.
C21_ReadYourWrites ==
    op = "cache_get" =>
        IF Live(ReadEntry) /\ ~OutlivedLifetime(ReadEntry)
        THEN ret = ReadEntry.value
        ELSE ret = None

\* a get of an entry that was set, has not outlived its lifetime and was
\* deleted or cleared since
C21_Witness ==
    /\ op = "cache_get"
    /\ ret = None
    /\ ReadEntry.written
    /\ ReadEntry.removed
    /\ ~OutlivedLifetime(ReadEntry)

\* C22: an entry set with expire_in = t is returned by get while fewer than
\* t seconds have passed since the set, and get returns None for it once more
\* than t seconds have passed, for every t the caller supplies.
C22_ExpiresAfterExpireIn ==
    (op = "cache_get" /\ ReadEntry.written) =>
        (ReadEntry.expire_in # None =>
            /\ (clock - ReadEntry.at < ReadEntry.expire_in.int /\ ~ReadEntry.removed)
                  => ret = ReadEntry.value
            /\ clock - ReadEntry.at > ReadEntry.expire_in.int => ret = None)

\* C28: after every completed operation and cleanup the metadata of each
\* cache reports the number of entries stored in the cache as item_count and
\* the sum of the lengths of their values as size.
C28_MetadataConsistent ==
    \A cache_name \in DOMAIN caches :
        /\ metadata[cache_name].item_count = Cardinality(DOMAIN caches[cache_name])
        /\ metadata[cache_name].size = SizeOfItems(caches[cache_name])

(***************************************************************************)
(* Properties: SchedulerService                                            *)
(***************************************************************************)
\* the history of the task id of the last call
CalledTask == registry_log[args.task_id]

\* C23: get_task_status(id) is a task dict, with the schedule_type and
\* schedule_value of the registration, exactly when the last successful
\* operation on id was schedule_task, and None otherwise (so after a
\* successful cancel_task); no schedule_task succeeds on an id that is
\* registered, and the task registered first stays as it was.
C23_Registry ==
    /\ op = "get_task_status" =>
          IF CalledTask.op = "schedule_task"
          THEN /\ ret # None
               /\ ret.schedule_type = CalledTask.schedule_type
               /\ ret.schedule_value = CalledTask.schedule_value
          ELSE ret = None
    /\ \A task_id \in TaskIds :
          registry_log[task_id].op = "schedule_task"
              => registry_log[task_id].before # "schedule_task"
    /\ (op = "cancel_task" /\ ret) => args.task_id \notin DOMAIN tasks

\* a status read of a task that was cancelled and registered again, with a
\* daily schedule, and has completed a run since
C23_Witness ==
    /\ op = "get_task_status"
    /\ CalledTask.op = "schedule_task"
    /\ CalledTask.before = "cancel_task"
    /\ ret # None
    /\ ret.schedule_type = "daily"
    /\ ret.status = "completed"

\* the threads that are inside the function registered under the task id
Executing(task_id) ==
    {thread \in 1 .. Len(task_threads) :
        /\ task_threads[thread].task_id = task_id
        /\ task_threads[thread].pc = "running"}

\* C27: at most one thread executes the function registered under a task id
\* at any time.
C27_NoConcurrentRuns ==
    \A task_id \in TaskIds : Cardinality(Executing(task_id)) <= 1

(***************************************************************************)
(* Properties: UserService                                                 *)
(***************************************************************************)
\* the username has max_login_attempts failed authenticate calls behind it
\* with no successful login in between, and less than lockout_duration has
\* passed since the oldest failed attempt recorded for it
LockedOut(name) ==
    /\ failed_calls[name] >= max_login_attempts
    /\ name \in DOMAIN login_attempts
    /\ login_attempts[name] # {}
    /\ clock - Oldest(login_attempts[name]) < lockout_duration

DefaultKeys ==
    {<<section>> : section \in DOMAIN DefaultConfigLiteral}
    \cup UNION {{<<section, key>> : key \in DOMAIN DefaultConfigLiteral[section]} :
                  section \in DOMAIN DefaultConfigLiteral}

\* the built-in default of a key, as the literal of the constructor gives it
BuiltInDefault(key) ==
    IF Len(key) = 1 THEN [dict |-> DefaultConfigLiteral[key[1]]]
    ELSE DefaultConfigLiteral[key[1]][key[2]]

\* C25: after any sequence of set and reset calls, reset(key) for a key with
\* a built-in default returns True, and a get(key) after it returns the
\* built-in default of the key. (A reset whose save fails for the disk is
\* left aside.)
C25_ResetRestoresDefault ==
    (op = "config_reset" /\ args.key \in DefaultKeys /\ args.disk_ok) =>
        /\ ret = TRUE
        /\ config_get(config, dicts, args.key, None) = BuiltInDefault(args.key)

\* C26: after any sequence of set calls, on a configuration created without
\* a config file too, reset_all() returns True and get(key) then returns the
\* built-in default of every default key. (A reset_all whose save fails for
\* the disk is left aside.)
C26_ResetAllRestoresDefaults ==
    (op = "reset_all" /\ args.disk_ok) =>
        /\ ret = TRUE
        /\ \A key \in DefaultKeys :
              config_get(config, dicts, key, None) = BuiltInDefault(key)

(***************************************************************************)
(* Properties: HealthService                                               *)
(***************************************************************************)
\* the monitor threads that are in the loop body, on their way to the append
Appending == {thread \in DOMAIN monitors : monitors[thread].pc \in {"collect", "append"}}

\* C29: under any sequence of start_monitoring and stop_monitoring calls at
\* most one monitor thread is appending to health_history at any time.
C29_OneMonitorAppends == Cardinality(Appending) <= 1

(***************************************************************************)
(* Properties: RealTimeCollaboration                                       *)
(***************************************************************************)
\* C30: no change queued for a session while it exists is discarded without
\* having been merged into the state of the session: it is in the queue of
\* the session or a run of _process_changes has merged it.
C30_NoChangeDiscarded ==
    \A session_id \in DOMAIN sessions :
        \A timestamp \in change_log[session_id].queued :
            \/ timestamp \in change_log[session_id].merged
            \/ /\ session_id \in DOMAIN changes_queue
               /\ timestamp \in Timestamps(changes_queue[session_id])

====
